---------------------------- MODULE Spec2Model ----------------------------
(***************************************************************************)
(* Model of the FinAudit core: the hybrid retrieval ranker                 *)
(* (Agent/app/legal/retrieval.py), the chunker, the chunk-and-merge        *)
(* orchestrator, the response resilience layer and the usage accumulator   *)
(* (Agent/app/audit/engine.py, Agent/app/llm/openai_client.py).            *)
(*                                                                         *)
(* Text is a sequence of symbols.  A symbol is a one-letter string, or     *)
(* "sp" and "nl" for a space and a line feed, the two whitespace           *)
(* characters of the model; the JSON texts also use word symbols (a key    *)
(* name, an escape sequence), introduced with the JSON reader below.       *)
(***************************************************************************)
EXTENDS Integers, Sequences, FiniteSets, TLC

VARIABLES
    \* ---- the chunker (engine.py, _chunk_contract_text) ----
    text,        \* the document handed to _chunk_contract_text
    max_chars,   \* the limit handed to it (config.contract_max_chars)
    chunks,      \* the list it returned
    cpc,         \* "off" | "start" | "done"
    \* ---- the usage accumulator (engine.py, _merge_token_usage) ----
    total_usage, \* the running total, a dict of four integers
    merged,      \* the deltas merged into it so far, in order
    upc,         \* "off" | "run" | "raised"
    \* ---- the selector (retrieval.py, retrieve_top_articles) ----
    contract_text,      \* the query text
    articles,           \* the corpus: a list of [content, embedding]
    max_articles,       \* the limit k
    use_full_artical,   \* config.use_full_artical
    embed_calls,        \* the batches sent to embed_texts so far, in order
    embed_answers,      \* the vectors embed_texts returned, batch by batch
    query_embedding,    \* the vector returned for the query
    article_embeddings, \* the list _get_article_embeddings returned
    bm25_norm,          \* per corpus position, the normalized BM25 score
    cosine_norm,        \* per corpus position, (cosine + 1) / 2
    scored,             \* the list of (score, position) pairs before the sort
    selected,           \* the corpus positions of the passages returned
    rpc,                \* "off" | "start" | "query_embedded" | "embedded"
                        \* | "done" | "raised"
    \* ---- the resilience layer (ensure_json, _normalize_json) ----
    response_text,      \* the reply of the generation collaborator
    json_text,          \* the candidate object text ensure_json returned
    normalized,         \* the text _normalize_json returned
    jerr,               \* the error raised, "" when none
    jpc,                \* "off" | "reply" | "candidate" | "normalized"
                        \* | "raised"
    \* ---- the audit run (engine.py, run_audit and _run_chunked_audit) ----
    document,       \* contract_text, the document of the run
    legal_articles, \* the corpus of the run
    config,         \* contract_max_chars, max_articles, use_full_artical,
                    \* law_retrieval
    entry,          \* "direct": run_audit is called with the corpus as given;
                    \* "loader": _load_legal_articles loads it first
    index_embeds,   \* the batches the loader sent to embed_texts
    run_chunks,     \* chunks: the chunks of the document
    results,        \* the normalized texts of the chunks done, in order
    chunk_results,  \* the entries of the chunks done, in order
    run_usage,      \* total_usage of the run
    run_selected,   \* selected_articles of the chunk in hand, as positions
    embed_log,      \* the batches sent to embed_texts, in order
    calls,          \* the generation calls made, in order
    result,         \* the AuditResult returned
    error,          \* the error the run raised, "" when none
    pc,             \* "off" | "load" | "start" | "retrieve" | "generate"
                    \* | "merge" | "generate_whole" | "returned" | "raised"
    \* ---- the workspace guard (file_read.py, read_legal_file) ----
    cwd,            \* the working directory, a resolved path
    file_path,      \* the path asked for
    workspace_dir,  \* the legal workspace
    reads,          \* the paths handed to extract_text, in order
    read_result,    \* what read_legal_file returned or raised
    fpc,            \* "off" | "start" | "done"
    \* ---- runs and a feedback update side by side (cli.py, ----
    \* ---- memory_update.py, prompt.py)                     ----
    index_path,     \* the file at <workspace>/.legal_articles.sqlite: 0 when
                    \* there is none, else its place in inodes
    inodes,         \* the index files created so far, unlinked ones included
    memory_file,    \* the content of memory.md
    procs,          \* per process: where it is and what it has read
    \* ---- the selector invoked a second time on the same arguments ----
    again,          \* <<>> before the second invocation; after it the
                    \* vectors the collaborator answered with and what
                    \* the invocation returned or raised
    \* ---- the scorers on degenerate input (retrieval.py, _bm25_score, ----
    \* ---- _cosine_similarity_vector)                                  ----
    scoring,        \* the input, the function applied and what it returned
    \* ---- the vector index over a sequence of loads (cli.py, _load_legal_articles) ----
    vector_index,  \* the workspace, the index file and what the last load did
    \* ---- the memory over a sequence of feedback updates (memory_update.py) ----
    feedback_memory,  \* the memory file and what the last update read and stored
    \* ---- the configuration built from the environment (config.py, AppConfig.from_env) ----
    app_config,  \* the environment, the .env file and the configuration built
    \* ---- the citation filter of the audit endpoint (server.py, _filter_hallucinated_risks) ----
    filtering   \* the risks of the run and what the endpoint returned

chunkVars == <<text, max_chars, chunks, cpc>>
usageVars == <<total_usage, merged, upc>>
retrievalVars ==
    <<contract_text, articles, max_articles, use_full_artical, embed_calls,
      embed_answers, query_embedding, article_embeddings, bm25_norm, cosine_norm, scored,
      selected, rpc>>
jsonVars == <<response_text, json_text, normalized, jerr, jpc>>
runVars ==
    <<document, legal_articles, config, entry, index_embeds, run_chunks, results, chunk_results,
      run_usage, run_selected, embed_log, calls, result, error, pc>>

fileVars == <<cwd, file_path, workspace_dir, reads, read_result, fpc>>
sharedVars == <<index_path, inodes, memory_file, procs>>

vars == <<text, max_chars, chunks, cpc, total_usage, merged, upc,
          contract_text, articles, max_articles, use_full_artical, embed_calls,
          embed_answers, query_embedding, article_embeddings, bm25_norm, cosine_norm, scored,
          selected, rpc, response_text, json_text, normalized, jerr, jpc,
          document, legal_articles, config, entry, index_embeds, run_chunks,
          results, chunk_results, run_usage, run_selected, embed_log, calls,
          result, error, pc, cwd, file_path, workspace_dir, reads, read_result,
          fpc, index_path, inodes, memory_file, procs, again, scoring, vector_index, feedback_memory, app_config, filtering>>

-----------------------------------------------------------------------------
(* Bounds of the model *)

MaxDocLen == 5
MaxLimit == 4
MaxParas == 3
MaxDeltas == 2
MaxCorpus == 3
MaxK == 2
MaxMembers == 2
MaxRunParas == 3

-----------------------------------------------------------------------------
(* Each specification below runs one component; the variables of the others  *)
(* stay at rest.                                                             *)

empty_token_usage ==
    [prompt_total |-> 0, prompt_cached |-> 0, prompt_uncached |-> 0, completion |-> 0]

ChunkOff == text = <<>> /\ max_chars = 0 /\ chunks = <<>> /\ cpc = "off"
UsageOff == total_usage = empty_token_usage /\ merged = <<>> /\ upc = "off"

RetrievalOff ==
    /\ contract_text = <<>> /\ articles = <<>> /\ max_articles = 0
    /\ use_full_artical = FALSE /\ embed_calls = <<>> /\ embed_answers = <<>>
    /\ query_embedding = <<>>
    /\ article_embeddings = <<>> /\ bm25_norm = <<>> /\ cosine_norm = <<>>
    /\ scored = <<>> /\ selected = <<>> /\ rpc = "off"


JsonOff ==
    /\ response_text = <<>> /\ json_text = <<>> /\ normalized = <<>>
    /\ jerr = "" /\ jpc = "off"

RunOff ==
    /\ document = <<>> /\ legal_articles = <<>> /\ config = <<>>
    /\ entry = "" /\ index_embeds = <<>>
    /\ run_chunks = <<>> /\ results = <<>> /\ chunk_results = <<>>
    /\ run_usage = empty_token_usage /\ run_selected = <<>> /\ embed_log = <<>>
    /\ calls = <<>> /\ result = <<>> /\ error = "" /\ pc = "off"

FileOff ==
    /\ cwd = <<>> /\ file_path = <<>> /\ workspace_dir = <<>> /\ reads = <<>>
    /\ read_result = <<>> /\ fpc = "off"

SharedOff ==
    /\ index_path = 0 /\ inodes = <<>> /\ memory_file = <<>> /\ procs = <<>>

AgainOff == again = <<>>
ScoringOff == scoring = <<>>
FilterOff == filtering = <<>>
ConfigOff == app_config = <<>>
MemoryOff == feedback_memory = <<>>
IndexOff == vector_index = <<>>

ChunkFrame ==
    UNCHANGED <<usageVars, retrievalVars, jsonVars, runVars, fileVars, sharedVars, again, scoring, vector_index, feedback_memory, app_config, filtering>>
UsageFrame ==
    UNCHANGED <<chunkVars, retrievalVars, jsonVars, runVars, fileVars, sharedVars, again, scoring, vector_index, feedback_memory, app_config, filtering>>
RetrievalFrame ==
    UNCHANGED <<chunkVars, usageVars, jsonVars, runVars, fileVars, sharedVars, again, scoring, vector_index, feedback_memory, app_config, filtering>>
JsonFrame ==
    UNCHANGED <<chunkVars, usageVars, retrievalVars, runVars, fileVars, sharedVars, again, scoring, vector_index, feedback_memory, app_config, filtering>>
RunFrame ==
    UNCHANGED <<chunkVars, usageVars, retrievalVars, jsonVars, fileVars, sharedVars, again, scoring, vector_index, feedback_memory, app_config, filtering>>
FileFrame ==
    UNCHANGED <<chunkVars, usageVars, retrievalVars, jsonVars, runVars, sharedVars, again, scoring, vector_index, feedback_memory, app_config, filtering>>
SharedFrame ==
    UNCHANGED <<chunkVars, usageVars, retrievalVars, jsonVars, runVars, fileVars, again, scoring, vector_index, feedback_memory, app_config, filtering>>
AgainFrame ==
    UNCHANGED <<chunkVars, usageVars, retrievalVars, jsonVars, runVars, fileVars,
                sharedVars, scoring, vector_index, feedback_memory, app_config, filtering>>
ScoringFrame ==
    UNCHANGED <<chunkVars, usageVars, retrievalVars, jsonVars, runVars, fileVars,
                sharedVars, again, vector_index, feedback_memory, app_config, filtering>>
FilterFrame ==
    UNCHANGED <<chunkVars, usageVars, retrievalVars, jsonVars, runVars, fileVars,
                sharedVars, again, vector_index, feedback_memory, app_config, scoring>>
ConfigFrame ==
    UNCHANGED <<chunkVars, usageVars, retrievalVars, jsonVars, runVars, fileVars,
                sharedVars, again, vector_index, feedback_memory, scoring, filtering>>
MemoryFrame ==
    UNCHANGED <<chunkVars, usageVars, retrievalVars, jsonVars, runVars, fileVars,
                sharedVars, again, vector_index, scoring, app_config, filtering>>
IndexFrame ==
    UNCHANGED <<chunkVars, usageVars, retrievalVars, jsonVars, runVars, fileVars,
                sharedVars, again, scoring, feedback_memory, app_config, filtering>>

-----------------------------------------------------------------------------
(* Generic helpers *)

Max(S) == CHOOSE x \in S : \A y \in S : y <= x
Min(S) == CHOOSE x \in S : \A y \in S : x <= y
MinOf(a, b) == IF a <= b THEN a ELSE b
MaxOf(a, b) == IF a >= b THEN a ELSE b

SeqsUpTo(S, n) == UNION {[1..m -> S] : m \in 0..n}

\* op applied to the value v: names a value that is computed once
With(v, op(_)) == op(v)

RECURSIVE Concat(_)
Concat(ss) == IF ss = <<>> THEN <<>> ELSE Head(ss) \o Concat(Tail(ss))

RECURSIVE JoinWith(_, _)
JoinWith(sep, ss) ==
    IF ss = <<>> THEN <<>>
    ELSE IF Len(ss) = 1 THEN ss[1]
    ELSE ss[1] \o sep \o JoinWith(sep, Tail(ss))

-----------------------------------------------------------------------------
(* Python string primitives *)

\* "a", "b" and "A" are ASCII letters, "zh" a CJK ideograph and "." any other
\* printing character
Whitespace == {"sp", "nl"}
IsSpace(c) == c \in Whitespace

\* str.strip(): drop the leading and the trailing whitespace run
Strip(s) ==
    LET keep == {i \in 1..Len(s) : ~IsSpace(s[i])}
    IN IF keep = {} THEN <<>> ELSE SubSeq(s, Min(keep), Max(keep))

\* the end of the match of \n\s*\n that starts at position i of s, 0 when
\* there is none: \s* is greedy, so the match ends at the last line feed of
\* the whitespace run that follows s[i]
MatchEnd(s, i) ==
    LET ends == {j \in (i + 1)..Len(s) :
                    /\ s[j] = "nl"
                    /\ \A m \in (i + 1)..(j - 1) : IsSpace(s[m])}
    IN IF s[i] = "nl" /\ ends # {} THEN Max(ends) ELSE 0

\* re.split(r"\n\s*\n", s): leftmost matches, scanned left to right
RECURSIVE ReSplitFrom(_, _, _)
ReSplitFrom(s, partStart, i) ==
    IF i > Len(s) THEN <<SubSeq(s, partStart, Len(s))>>
    ELSE IF MatchEnd(s, i) > 0
         THEN <<SubSeq(s, partStart, i - 1)>>
              \o ReSplitFrom(s, MatchEnd(s, i) + 1, MatchEnd(s, i) + 1)
         ELSE ReSplitFrom(s, partStart, i + 1)

ReSplit(s) == ReSplitFrom(s, 1, 1)

-----------------------------------------------------------------------------
(* The chunker *)

ParaSep == <<"nl", "nl">>

\* the paragraphs list of _chunk_contract_text: the stripped, non-blank parts
RECURSIVE StripParts(_)
StripParts(parts) ==
    IF parts = <<>> THEN <<>>
    ELSE IF Strip(Head(parts)) = <<>> THEN StripParts(Tail(parts))
    ELSE <<Strip(Head(parts))>> \o StripParts(Tail(parts))

Paragraphs(cleaned) == StripParts(ReSplit(cleaned))

RECURSIVE SliceFrom(_, _, _)
SliceFrom(s, start, n) ==
    IF start > Len(s) THEN <<>>
    ELSE LET end == MinOf(start + n - 1, Len(s))
         IN <<SubSeq(s, start, end)>> \o SliceFrom(s, end + 1, n)

\* split_long_text with the loop stopping before a last, shorter piece
split_long_text_full_only(s, n) ==
    IF n <= 0 THEN <<s>>
    ELSE SelectSeq(SliceFrom(s, 1, n), LAMBDA piece : Len(piece) = n)

\* split_long_text cutting one character past the limit
split_long_text_wide(s, n) == IF n <= 0 THEN <<s>> ELSE SliceFrom(s, 1, n + 1)

split_long_text(s, n) == IF n <= 0 THEN <<s>> ELSE SliceFrom(s, 1, n)

\* the packing loop: acc is the chunks list, current the running buffer
RECURSIVE PackLoop(_, _, _, _)
PackLoop(paras, acc, current, n) ==
    IF paras = <<>>
    THEN IF current # <<>> THEN Append(acc, current) ELSE acc
    ELSE LET p == Head(paras)
             combined == current \o ParaSep \o p
         IN IF Len(p) > n
            THEN PackLoop(Tail(paras),
                          (IF current # <<>> THEN Append(acc, current) ELSE acc)
                              \o split_long_text(p, n),
                          <<>>, n)
            ELSE IF current = <<>>
            THEN PackLoop(Tail(paras), acc, p, n)
            ELSE IF Len(combined) <= n
            THEN PackLoop(Tail(paras), acc, combined, n)
            ELSE PackLoop(Tail(paras), Append(acc, current), p, n)

\* the packing loop without the flush of the running buffer after the loop
PackParagraphsNoFlush(paras, n) ==
    IF paras = <<>> \/ Len(paras[Len(paras)]) > n
    THEN PackLoop(paras, <<>>, <<>>, n)
    ELSE SubSeq(PackLoop(paras, <<>>, <<>>, n), 1,
                Len(PackLoop(paras, <<>>, <<>>, n)) - 1)
PackParagraphs(paras, n) == PackLoop(paras, <<>>, <<>>, n)

chunk_contract_text(t, n) ==
    LET cleaned == Strip(t)
    IN IF cleaned = <<>> THEN <<>>
       ELSE IF n <= 0 THEN <<cleaned>>
       ELSE IF Len(cleaned) <= n THEN <<cleaned>>
       ELSE IF Paragraphs(cleaned) = <<>> THEN split_long_text(cleaned, n)
       ELSE PackParagraphs(Paragraphs(cleaned), n)

-----------------------------------------------------------------------------
(* The usage accumulator *)

\* A value found under a key of a usage dict: an integer, None, a text that
\* is no number, or nothing at all (the key is absent).
IntVal(n) == [tag |-> "int", n |-> n]
Absent == [tag |-> "absent", n |-> 0]
NoneVal == [tag |-> "none", n |-> 0]
TextVal == [tag |-> "text", n |-> 0]

UsageFields == <<"prompt_total", "prompt_cached", "prompt_uncached", "completion">>

\* int(delta.get(key, 0) or 0): an absent key, None and 0 give 0, an integer
\* gives itself, and int() of a text that is no number raises ValueError
IntRaises(v) == v.tag = "text"
IntOrZero(v) == IF v.tag = "int" THEN v.n ELSE 0

\* the first field, in the order of the four += statements, whose int() raises
\* (0 when none does)
FirstRaising(delta) ==
    LET bad == {i \in 1..Len(UsageFields) : IntRaises(delta[UsageFields[i]])}
    IN IF bad = {} THEN 0 ELSE Min(bad)

\* _merge_token_usage deriving prompt_uncached from the delta's two other
\* prompt counts instead of reading the delta's own prompt_uncached
merge_token_usage_derived(total, delta) ==
    [raised |-> FirstRaising(delta) # 0,
     total |->
       [prompt_total |-> total.prompt_total + IntOrZero(delta.prompt_total),
        prompt_cached |-> total.prompt_cached + IntOrZero(delta.prompt_cached),
        prompt_uncached |->
            total.prompt_uncached
            + MaxOf(IntOrZero(delta.prompt_total) - IntOrZero(delta.prompt_cached), 0),
        completion |-> total.completion + IntOrZero(delta.completion)]]

\* _merge_token_usage with = in the place of +=: the total is the last delta
merge_token_usage_assign(total, delta) ==
    [raised |-> FirstRaising(delta) # 0,
     total |-> [f \in DOMAIN total |-> IntOrZero(delta[f])]]

\* _merge_token_usage: the four += statements run in order; the one that raises
\* leaves the fields before it updated and the rest untouched
merge_token_usage(total, delta) ==
    LET stop == FirstRaising(delta)
        done(i) == stop = 0 \/ i < stop
    IN [raised |-> stop # 0,
        total |->
          [prompt_total |->
              IF done(1) THEN total.prompt_total + IntOrZero(delta.prompt_total)
              ELSE total.prompt_total,
           prompt_cached |->
              IF done(2) THEN total.prompt_cached + IntOrZero(delta.prompt_cached)
              ELSE total.prompt_cached,
           prompt_uncached |->
              IF done(3) THEN total.prompt_uncached + IntOrZero(delta.prompt_uncached)
              ELSE total.prompt_uncached,
           completion |->
              IF done(4) THEN total.completion + IntOrZero(delta.completion)
              ELSE total.completion]]

\* _extract_usage on a response whose usage block reports the three counts
extract_usage(prompt_tokens, cached_tokens, completion_tokens) ==
    [prompt_total |-> IntVal(prompt_tokens),
     prompt_cached |-> IntVal(cached_tokens),
     prompt_uncached |-> IntVal(MaxOf(prompt_tokens - cached_tokens, 0)),
     completion |-> IntVal(completion_tokens)]

\* The deltas merged: the ones _extract_usage builds from a usage block (whose
\* cached count is part of its prompt count), the same without the
\* prompt_uncached key, and dicts with None, a text or nothing under one key.
PromptCounts == {0, 7, 10}
CachedCounts == {0, 1, 3}
CompletionCounts == {0, 2, 5}

ExtractedDeltas ==
    {extract_usage(u[1], u[2], u[3]) :
        u \in {v \in PromptCounts \X CachedCounts \X CompletionCounts : v[2] <= v[1]}}
BareDeltas == {[d EXCEPT !.prompt_uncached = Absent] : d \in ExtractedDeltas}
OddDeltas ==
    {[extract_usage(10, 3, 5) EXCEPT ![UsageFields[i]] = v] :
        i \in 1..Len(UsageFields), v \in {NoneVal, TextVal, Absent}}
Deltas == ExtractedDeltas \cup BareDeltas \cup OddDeltas

UsageInit ==
    /\ FilterOff
    /\ ConfigOff
    /\ MemoryOff
    /\ IndexOff
    /\ AgainOff
    /\ ScoringOff
    /\ RunOff
    /\ ChunkOff
    /\ JsonOff
    /\ FileOff
    /\ SharedOff
    /\ RetrievalOff
    /\ total_usage = empty_token_usage
    /\ merged = <<>>
    /\ upc = "run"

\* one call of _merge_token_usage that returns
MergeUsage ==
    /\ upc = "run"
    /\ Len(merged) < MaxDeltas
    /\ \E delta \in Deltas :
        /\ ~merge_token_usage(total_usage, delta).raised
        /\ total_usage' = merge_token_usage(total_usage, delta).total
        /\ merged' = Append(merged, delta)
    /\ UNCHANGED upc
    /\ UsageFrame

\* one call of _merge_token_usage that raises
MergeUsageRaises ==
    /\ upc = "run"
    /\ Len(merged) < MaxDeltas
    /\ \E delta \in Deltas :
        /\ merge_token_usage(total_usage, delta).raised
        /\ total_usage' = merge_token_usage(total_usage, delta).total
        /\ merged' = Append(merged, delta)
    /\ upc' = "raised"
    /\ UsageFrame

UsageNext == MergeUsage \/ MergeUsageRaises

SpecUsage == UsageInit /\ [][UsageNext]_vars

-----------------------------------------------------------------------------
(* The documents the chunker is run on: every text of at most MaxDocLen      *)
(* characters, and the texts made of at most MaxParas paragraphs joined by   *)
(* blank-line separators of several shapes.                                  *)

Char == {"a", "b", "sp", "nl"}

ParaBodies == {<<"a">>, <<"b", "nl", "a">>, <<"a", "b", "sp", "a", "b">>}
Separators == {<<"nl", "nl">>, <<"sp", "nl", "nl">>, <<"nl", "sp", "nl", "sp">>}

RECURSIVE ParaDocs(_)
ParaDocs(n) ==
    IF n = 0 THEN {<<>>}
    ELSE IF n = 1 THEN ParaBodies
    ELSE ParaBodies \cup
         {d \o s \o p : d \in ParaDocs(n - 1), s \in Separators, p \in ParaBodies}

Documents == SeqsUpTo(Char, MaxDocLen) \cup ParaDocs(MaxParas)
Limits == 0..MaxLimit

ChunkInit ==
    /\ FilterOff
    /\ ConfigOff
    /\ MemoryOff
    /\ IndexOff
    /\ AgainOff
    /\ ScoringOff
    /\ RunOff
    /\ UsageOff
    /\ JsonOff
    /\ FileOff
    /\ SharedOff
    /\ RetrievalOff
    /\ text \in Documents
    /\ max_chars \in Limits
    /\ chunks = <<>>
    /\ cpc = "start"

ChunkCall ==
    /\ cpc = "start"
    /\ chunks' = chunk_contract_text(text, max_chars)
    /\ cpc' = "done"
    /\ UNCHANGED <<text, max_chars>>
    /\ ChunkFrame

ChunkNext == ChunkCall

SpecChunk == ChunkInit /\ [][ChunkNext]_vars

-----------------------------------------------------------------------------
(* Floating-point numbers are fixed-point integers here: the number x is the *)
(* integer x * Scale, rounded down.                                          *)

Scale == 10 ^ 4
Fixed(n) == n * Scale
FMul(a, b) == (a * b) \div Scale
FDiv(a, b) == (a * Scale) \div b

\* the largest r of lo..hi with r * r <= n
RECURSIVE IsqrtBetween(_, _, _)
IsqrtBetween(n, lo, hi) ==
    IF lo >= hi THEN lo
    ELSE LET mid == (lo + hi + 1) \div 2
         IN IF mid * mid <= n THEN IsqrtBetween(n, mid, hi)
            ELSE IsqrtBetween(n, lo, mid - 1)

\* math.sqrt(n) of an integer-valued n
Sqrt(n) == IsqrtBetween(n * Scale * Scale, 0, 4 * Scale)

\* the sum of z^(2k+1) / (2k+1) from term k on, power being z^(2k+1)
RECURSIVE AtanhSeries(_, _, _)
AtanhSeries(z, power, k) ==
    IF power = 0 THEN 0
    ELSE power \div (2 * k + 1) + AtanhSeries(z, FMul(FMul(power, z), z), k + 1)

\* math.log(x) for x >= 1: 2 * atanh((x - 1) / (x + 1))
Log(x) ==
    LET z == FDiv(x - Scale, x + Scale)
    IN 2 * AtanhSeries(z, z, 0)

-----------------------------------------------------------------------------
(* The tokenizer and the corpus statistics *)

IsWordChar(c) == c \in {"a", "b", "A"}
IsCJK(c) == c = "zh"

LowerChar(c) == IF c = "A" THEN "a" ELSE IF c = "W" THEN "w" ELSE c
Lower(s) == [i \in 1..Len(s) |-> LowerChar(s[i])]

\* the last position of the run of characters of class P(_) that starts at i
WordRunEnd(s, i) == Max({j \in i..Len(s) : \A m \in i..j : IsWordChar(s[m])})
CJKRunEnd(s, i) == Max({j \in i..Len(s) : \A m \in i..j : IsCJK(s[m])})

\* TOKEN_PATTERN.findall: a run of word characters, or a run of two or more
\* ideographs; anything else, a lone ideograph included, is skipped
RECURSIVE FindTokensFrom(_, _)
FindTokensFrom(s, i) ==
    IF i > Len(s) THEN <<>>
    ELSE IF IsWordChar(s[i])
    THEN <<SubSeq(s, i, WordRunEnd(s, i))>>
         \o FindTokensFrom(s, WordRunEnd(s, i) + 1)
    ELSE IF IsCJK(s[i]) /\ CJKRunEnd(s, i) > i
    THEN <<SubSeq(s, i, CJKRunEnd(s, i))>>
         \o FindTokensFrom(s, CJKRunEnd(s, i) + 1)
    ELSE FindTokensFrom(s, i + 1)

tokenize(s) == FindTokensFrom(Lower(s), 1)

\* Counter(tokens)[term]
Count(tokens, term) == Cardinality({i \in 1..Len(tokens) : tokens[i] = term})

\* Counter(tokens).keys(): the distinct tokens, in order of first occurrence
Keys(tokens) ==
    LET first == {i \in 1..Len(tokens) : \A j \in 1..(i - 1) : tokens[j] # tokens[i]}
        RECURSIVE Pick(_)
        Pick(i) == IF i > Len(tokens) THEN <<>>
                   ELSE IF i \in first THEN <<tokens[i]>> \o Pick(i + 1)
                   ELSE Pick(i + 1)
    IN Pick(1)

RECURSIVE SumSeq(_)
SumSeq(ns) == IF ns = <<>> THEN 0 ELSE Head(ns) + SumSeq(Tail(ns))

\* _build_corpus_stats: the token list of each document (its Counter), the
\* document lengths, the document frequency of each term of the corpus and
\* the mean document length
doc_tokens(arts) == [i \in 1..Len(arts) |-> tokenize(arts[i].content)]
doc_lengths(toks) == [i \in 1..Len(toks) |-> Len(toks[i])]
doc_freqs(toks) ==
    [term \in UNION {{toks[i][j] : j \in 1..Len(toks[i])} : i \in 1..Len(toks)} |->
        Cardinality({i \in 1..Len(toks) : Count(toks[i], term) > 0})]
avg_doc_length(lengths) ==
    IF lengths = <<>> THEN 0 ELSE Fixed(SumSeq(lengths)) \div Len(lengths)

\* doc_freqs.get(term, 0)
GetOrZero(counts, term) == IF term \in DOMAIN counts THEN counts[term] ELSE 0

-----------------------------------------------------------------------------
(* The scorers *)

K1 == (3 * Scale) \div 2
B == (3 * Scale) \div 4

\* one query term's share of the BM25 score of a document
bm25_term(tf, df, doc_len, avg_doc_len, total_docs) ==
    IF tf = 0 \/ df = 0 THEN 0
    ELSE LET idf == Log(Scale + FDiv(Fixed(total_docs - df) + Scale \div 2,
                                     Fixed(df) + Scale \div 2))
             denom == Fixed(tf) + FMul(K1, (Scale - B) + FDiv(B * doc_len, avg_doc_len))
         IN FMul(idf, FDiv(tf * (K1 + Scale), denom))

RECURSIVE bm25_sum(_, _, _, _, _, _)
bm25_sum(terms, tokens, doc_len, avg_doc_len, freqs, total_docs) ==
    IF terms = <<>> THEN 0
    ELSE bm25_term(Count(tokens, Head(terms)), GetOrZero(freqs, Head(terms)),
                   doc_len, avg_doc_len, total_docs)
         + bm25_sum(Tail(terms), tokens, doc_len, avg_doc_len, freqs, total_docs)

\* _bm25_score(query_counts, doc_counts, doc_len, avg_doc_len, doc_freqs, total_docs)
bm25_score(query_terms, tokens, doc_len, avg_doc_len, freqs, total_docs) ==
    IF doc_len = 0 \/ avg_doc_len = 0 \/ total_docs = 0 THEN 0
    ELSE bm25_sum(query_terms, tokens, doc_len, avg_doc_len, freqs, total_docs)

\* the bm25_scores list of retrieve_top_articles
bm25_scores(query, arts) ==
    LET query_terms == Keys(tokenize(query))
        toks == doc_tokens(arts)
        lengths == doc_lengths(toks)
        freqs == doc_freqs(toks)
        avg == avg_doc_length(lengths)
    IN [i \in 1..Len(arts) |->
          bm25_score(query_terms, toks[i], lengths[i], avg, freqs, Len(arts))]

\* _normalize_scores
normalize_scores(scores) ==
    IF scores = <<>> THEN <<>>
    ELSE LET max_value == Max({scores[i] : i \in 1..Len(scores)})
         IN IF max_value <= 0 THEN [i \in 1..Len(scores) |-> 0]
            ELSE [i \in 1..Len(scores) |-> FDiv(scores[i], max_value)]

Dot(u, v) == SumSeq([i \in 1..MinOf(Len(u), Len(v)) |-> u[i] * v[i]])

\* _cosine_similarity_vector without the test on the two lengths: zip() stops
\* at the shorter vector
cosine_similarity_vector_zip(q, d) ==
    IF q = <<>> \/ d = <<>> THEN 0
    ELSE IF Dot(q, q) = 0 \/ Dot(d, d) = 0 THEN 0
    ELSE FDiv(Fixed(Dot(q, d)), FMul(Sqrt(Dot(q, q)), Sqrt(Dot(d, d))))

\* _cosine_similarity_vector
cosine_similarity_vector(q, d) ==
    IF q = <<>> \/ d = <<>> THEN 0
    ELSE IF Len(q) # Len(d) THEN 0
    ELSE IF Dot(q, q) = 0 \/ Dot(d, d) = 0 THEN 0
    ELSE FDiv(Fixed(Dot(q, d)), FMul(Sqrt(Dot(q, q)), Sqrt(Dot(d, d))))

-----------------------------------------------------------------------------
(* The selector *)

\* the corpus positions whose passage has no stored embedding (None or [])
Missing(arts) == {i \in 1..Len(arts) : arts[i].embedding = <<>>}

\* the texts of the batch _get_article_embeddings sends: the passages without
\* a stored embedding, in corpus order
RECURSIVE MissingTexts(_, _)
MissingTexts(arts, i) ==
    IF i > Len(arts) THEN <<>>
    ELSE IF i \in Missing(arts) THEN <<arts[i].content>> \o MissingTexts(arts, i + 1)
    ELSE MissingTexts(arts, i + 1)

\* the generated vectors spliced in from the last one to the first
resolve_embeddings_reversed(arts, generated) ==
    [i \in 1..Len(arts) |->
        IF i \in Missing(arts)
        THEN generated[Len(generated) + 1 - Cardinality({j \in Missing(arts) : j <= i})]
        ELSE arts[i].embedding]

\* the list _get_article_embeddings builds from the stored embeddings and the
\* vectors generated for the batch: next(generated_iter) at each missing one
resolve_embeddings(arts, generated) ==
    [i \in 1..Len(arts) |->
        IF i \in Missing(arts)
        THEN generated[Cardinality({j \in Missing(arts) : j <= i})]
        ELSE arts[i].embedding]

\* seq[:k + 1]
SliceToInclusive(seq, k) ==
    IF k >= 0 THEN SubSeq(seq, 1, MinOf(k + 1, Len(seq)))
    ELSE SubSeq(seq, 1, MaxOf(Len(seq) + k + 1, 0))

\* seq[:k]
SliceTo(seq, k) ==
    IF k >= 0 THEN SubSeq(seq, 1, MinOf(k, Len(seq)))
    ELSE SubSeq(seq, 1, MaxOf(Len(seq) + k, 0))

\* the weights of the fused score, in tenths
SemanticWeight == 6
LexicalWeight == 4

\* score = 0.6 * cosine_norm + 0.4 * bm25_norm, in tenths of a fixed-point unit
fused_score(cos_norm, lex_norm) == SemanticWeight * cos_norm + LexicalWeight * lex_norm

\* list.sort(key=item[0], reverse=True): stable, so an item goes after the
\* items already placed whose score is at least its own
\* an unstable insertion: an item goes before the items of equal score
RECURSIVE InsertDescBeforeEqual(_, _)
InsertDescBeforeEqual(sorted, item) ==
    IF sorted = <<>> THEN <<item>>
    ELSE IF Head(sorted)[1] > item[1]
    THEN <<Head(sorted)>> \o InsertDescBeforeEqual(Tail(sorted), item)
    ELSE <<item>> \o sorted

RECURSIVE InsertDesc(_, _)
InsertDesc(sorted, item) ==
    IF sorted = <<>> THEN <<item>>
    ELSE IF Head(sorted)[1] >= item[1]
    THEN <<Head(sorted)>> \o InsertDesc(Tail(sorted), item)
    ELSE <<item>> \o sorted

RECURSIVE SortDescFrom(_, _, _)
SortDescFrom(items, i, sorted) ==
    IF i > Len(items) THEN sorted
    ELSE SortDescFrom(items, i + 1, InsertDesc(sorted, items[i]))

sort_desc(items) == SortDescFrom(items, 1, <<>>)

Positions(arts) == [i \in 1..Len(arts) |-> i]

\* cosine_norm = (cosine + 1.0) / 2.0, per passage
cosine_norms(q, embeddings) ==
    [i \in 1..Len(embeddings) |->
        (cosine_similarity_vector(q, embeddings[i]) + Scale) \div 2]

\* the scored list: (score, position) per passage, in corpus order
scored_list(cos_norms, lex_norms) ==
    [i \in 1..Len(cos_norms) |-> <<fused_score(cos_norms[i], lex_norms[i]), i>>]

\* [item[1] for item in scored[:max_articles]] after the sort
top_positions(items, k) ==
    LET kept == SliceTo(sort_desc(items), k)
    IN [j \in 1..Len(kept) |-> kept[j][2]]

\* the inputs of the selector
QueryTexts == {<<>>, <<"nl", "sp">>, <<"A", "sp", "b">>, <<"zh">>}
ArticleKinds ==
    { [content |-> <<"a">>, embedding |-> <<>>],
      [content |-> <<"b">>, embedding |-> <<0, 1>>],
      [content |-> <<"a", "sp", "b", "sp", "b">>, embedding |-> <<>>],
      [content |-> <<".">>, embedding |-> <<1>>] }
\* the vectors the embedding collaborator answers with
EmbedVectors == {<<1, 0>>, <<-1, 1>>}

RetrievalInit ==
    /\ FilterOff
    /\ ConfigOff
    /\ MemoryOff
    /\ IndexOff
    /\ AgainOff
    /\ ScoringOff
    /\ RunOff
    /\ ChunkOff
    /\ JsonOff
    /\ FileOff
    /\ SharedOff
    /\ UsageOff
    /\ contract_text \in QueryTexts
    /\ articles \in SeqsUpTo(ArticleKinds, MaxCorpus)
    /\ max_articles \in 0..MaxK
    /\ use_full_artical \in BOOLEAN
    /\ embed_calls = <<>>
    /\ embed_answers = <<>>
    /\ query_embedding = <<>>
    /\ article_embeddings = <<>>
    /\ bm25_norm = <<>>
    /\ cosine_norm = <<>>
    /\ scored = <<>>
    /\ selected = <<>>
    /\ rpc = "start"

\* the blank test without the strip(): only the empty text is blank
IsBlankUnstripped(q) == q = <<>>

\* not contract_text.strip()
IsBlank(q) == Strip(q) = <<>>

Scoring == ~use_full_artical /\ ~IsBlank(contract_text) /\ articles # <<>>

\* the full-corpus path cut to the limit, as the blank-query path is
ReturnFullCorpusCut ==
    /\ rpc = "start"
    /\ use_full_artical
    /\ selected' = SliceTo(Positions(articles), max_articles)
    /\ rpc' = "done"
    /\ UNCHANGED <<contract_text, articles, max_articles, use_full_artical, embed_answers,
                   embed_calls, query_embedding, article_embeddings, bm25_norm,
                   cosine_norm, scored>>
    /\ RetrievalFrame

\* retrieval.py:20-21
ReturnFullCorpus ==
    /\ rpc = "start"
    /\ use_full_artical
    /\ selected' = Positions(articles)
    /\ rpc' = "done"
    /\ UNCHANGED <<contract_text, articles, max_articles, use_full_artical, embed_answers,
                   embed_calls, query_embedding, article_embeddings, bm25_norm,
                   cosine_norm, scored>>
    /\ RetrievalFrame

\* retrieval.py:22-23
ReturnFirstK ==
    /\ rpc = "start"
    /\ ~use_full_artical
    /\ IsBlank(contract_text)
    /\ selected' = SliceTo(Positions(articles), max_articles)
    /\ rpc' = "done"
    /\ UNCHANGED <<contract_text, articles, max_articles, use_full_artical, embed_answers,
                   embed_calls, query_embedding, article_embeddings, bm25_norm,
                   cosine_norm, scored>>
    /\ RetrievalFrame

\* retrieval.py:24-25
ReturnEmpty ==
    /\ rpc = "start"
    /\ ~use_full_artical
    /\ ~IsBlank(contract_text)
    /\ articles = <<>>
    /\ selected' = <<>>
    /\ rpc' = "done"
    /\ UNCHANGED <<contract_text, articles, max_articles, use_full_artical, embed_answers,
                   embed_calls, query_embedding, article_embeddings, bm25_norm,
                   cosine_norm, scored>>
    /\ RetrievalFrame

\* retrieval.py:36-40: the query's embedding is requested and returned
EmbedQuery ==
    /\ rpc = "start"
    /\ Scoring
    /\ embed_calls' = Append(embed_calls, <<contract_text>>)
    /\ \E v \in EmbedVectors :
          /\ embed_answers' = Append(embed_answers, <<v>>)
          /\ query_embedding' = v
    /\ rpc' = "query_embedded"
    /\ UNCHANGED <<contract_text, articles, max_articles, use_full_artical,
                   article_embeddings, bm25_norm, cosine_norm, scored, selected>>
    /\ RetrievalFrame

\* retrieval.py:36-40: the embedding collaborator raises
EmbedQueryRaises ==
    /\ rpc = "start"
    /\ Scoring
    /\ embed_calls' = Append(embed_calls, <<contract_text>>)
    /\ rpc' = "raised"
    /\ UNCHANGED <<contract_text, articles, max_articles, use_full_artical, embed_answers,
                   query_embedding, article_embeddings, bm25_norm, cosine_norm,
                   scored, selected>>
    /\ RetrievalFrame

\* retrieval.py:129-132: every passage has a stored embedding
UseStoredEmbeddings ==
    /\ rpc = "query_embedded"
    /\ Missing(articles) = {}
    /\ article_embeddings' = [i \in 1..Len(articles) |-> articles[i].embedding]
    /\ rpc' = "embedded"
    /\ UNCHANGED <<contract_text, articles, max_articles, use_full_artical, embed_answers,
                   embed_calls, query_embedding, bm25_norm, cosine_norm, scored,
                   selected>>
    /\ RetrievalFrame

\* retrieval.py:133-142: one batch for the passages without an embedding
EmbedMissing ==
    /\ rpc = "query_embedded"
    /\ Missing(articles) # {}
    /\ embed_calls' = Append(embed_calls, MissingTexts(articles, 1))
    /\ \E generated \in [1..Cardinality(Missing(articles)) -> EmbedVectors] :
          /\ embed_answers' = Append(embed_answers, generated)
          /\ article_embeddings' = resolve_embeddings(articles, generated)
    /\ rpc' = "embedded"
    /\ UNCHANGED <<contract_text, articles, max_articles, use_full_artical,
                   query_embedding, bm25_norm, cosine_norm, scored, selected>>
    /\ RetrievalFrame

\* retrieval.py:133-134: the batch request raises
EmbedMissingRaises ==
    /\ rpc = "query_embedded"
    /\ Missing(articles) # {}
    /\ embed_calls' = Append(embed_calls, MissingTexts(articles, 1))
    /\ rpc' = "raised"
    /\ UNCHANGED <<contract_text, articles, max_articles, use_full_artical, embed_answers,
                   query_embedding, article_embeddings, bm25_norm, cosine_norm,
                   scored, selected>>
    /\ RetrievalFrame

\* retrieval.py:46-66: score every passage, sort, keep the first max_articles
ScoreAndSelect ==
    /\ rpc = "embedded"
    /\ bm25_norm' = normalize_scores(bm25_scores(contract_text, articles))
    /\ cosine_norm' = cosine_norms(query_embedding, article_embeddings)
    /\ scored' = scored_list(cosine_norm', bm25_norm')
    /\ selected' = top_positions(scored', max_articles)
    /\ rpc' = "done"
    /\ UNCHANGED <<contract_text, articles, max_articles, use_full_artical, embed_answers,
                   embed_calls, query_embedding, article_embeddings>>
    /\ RetrievalFrame

RetrievalNext ==
    \/ ReturnFullCorpus
    \/ ReturnFirstK
    \/ ReturnEmpty
    \/ EmbedQuery
    \/ EmbedQueryRaises
    \/ UseStoredEmbeddings
    \/ EmbedMissing
    \/ EmbedMissingRaises
    \/ ScoreAndSelect

SpecRetrieve == RetrievalInit /\ [][RetrievalNext]_vars

\* the passages returned: the objects at the selected corpus positions
Returned == [j \in 1..Len(selected) |-> articles[selected[j]]]

-----------------------------------------------------------------------------
(* JSON text and values (json.loads, json.dumps).  A reply is a sequence of *)
(* characters too.  A word of a reply ("summary", "risks", "raw_text",      *)
(* "chunk_index", "null" and so on) is one element of the sequence, and so  *)
(* is an escape sequence inside a JSON string; "ldq" is a typographic       *)
(* double quote, "ctl" the control character U+0001 and "bom" the           *)
(* byte-order mark.                                                         *)

Quote == "\""
EscQuote == "\\\""
EscNl == "\\n"
EscCtl == "\\u0001"

Digits == <<"0", "1", "2", "3", "4", "5", "6", "7", "8", "9">>
IsDigit(c) == \E d \in 1..Len(Digits) : Digits[d] = c
DigitValue(c) == (CHOOSE d \in 1..Len(Digits) : Digits[d] = c) - 1

\* the characters below U+0020 of the model: a strict JSON string rejects them
ControlChars == {"nl", "ctl"}

\* Python values: None, a str, an int, a list, a dict (its items in insertion
\* order, as a list of [k, val])
JNull == [t |-> "null", v |-> <<>>]
JStr(s) == [t |-> "str", v |-> s]
JNum(n) == [t |-> "num", v |-> <<n>>]
JList(items) == [t |-> "list", v |-> items]
JDict(items) == [t |-> "dict", v |-> items]

\* key in d
DictHas(d, key) == \E i \in 1..Len(d.v) : d.v[i].k = key

\* d.get(key)
DictGet(d, key) ==
    IF DictHas(d, key)
    THEN d.v[CHOOSE i \in 1..Len(d.v) : d.v[i].k = key].val
    ELSE JNull

\* d[key] = val: a key already there keeps its place
DictSet(d, key, val) ==
    IF DictHas(d, key)
    THEN JDict([i \in 1..Len(d.v) |->
                  IF d.v[i].k = key THEN [k |-> key, val |-> val] ELSE d.v[i]])
    ELSE JDict(Append(d.v, [k |-> key, val |-> val]))

\* the character at position i, "eof" past the end
At(s, i) == IF i \in 1..Len(s) THEN s[i] ELSE "eof"

\* the first position from i on that holds no whitespace
RECURSIVE SkipWs(_, _)
SkipWs(s, i) == IF i <= Len(s) /\ IsSpace(s[i]) THEN SkipWs(s, i + 1) ELSE i

\* the outcomes of a scan: a value and the position after it, or the error
Ok(val, pos) == [st |-> "ok", val |-> val, pos |-> pos]
DecodeError == [st |-> "JSONDecodeError", val |-> JNull, pos |-> 0]
RecursionError == [st |-> "RecursionError", val |-> JNull, pos |-> 0]

\* The nesting depth at which the decoder raises RecursionError.  CPython
\* counts one level of its recursion limit (sys.getrecursionlimit(), 1000 by
\* default) per nested object or array; the model scales the limit down so
\* that the replies below reach it.
RecursionLimit == 2

\* the position of the quote that closes the string opened at i, 0 if none
RECURSIVE QuoteFrom(_, _)
QuoteFrom(s, j) ==
    IF j > Len(s) THEN 0 ELSE IF s[j] = Quote THEN j ELSE QuoteFrom(s, j + 1)

StringEnd(s, i) == QuoteFrom(s, i + 1)

Unescape(c) ==
    IF c = EscQuote THEN Quote
    ELSE IF c = EscNl THEN "nl"
    ELSE IF c = EscCtl THEN "ctl"
    ELSE c

Escape(c) ==
    IF c = Quote THEN EscQuote
    ELSE IF c = "nl" THEN EscNl
    ELSE IF c = "ctl" THEN EscCtl
    ELSE c

\* scanstring, strict: the string that opens at position i
scan_string(s, i) ==
    With(StringEnd(s, i), LAMBDA e :
        IF e = 0 \/ \E j \in (i + 1)..(e - 1) : s[j] \in ControlChars
        THEN DecodeError
        ELSE Ok(JStr([j \in 1..(e - i - 1) |-> Unescape(s[i + j])]), e + 1))

\* the last position of the integer that starts at i: 0, or a run of digits
NumberEnd(s, i) ==
    IF s[i] = "0" THEN i
    ELSE Max({j \in i..Len(s) : \A m \in i..j : IsDigit(s[m])})

RECURSIVE DigitsValue(_, _, _)
DigitsValue(s, i, j) ==
    IF j < i THEN 0 ELSE 10 * DigitsValue(s, i, j - 1) + DigitValue(s[j])

RECURSIVE NumberText(_)
NumberText(n) ==
    IF n < 10 THEN <<Digits[n + 1]>>
    ELSE NumberText(n \div 10) \o <<Digits[(n % 10) + 1]>>

RECURSIVE scan_once(_, _, _)
RECURSIVE parse_members(_, _, _, _)
RECURSIVE parse_items(_, _, _, _)

\* the members of an object from the key at position i on, acc holding the
\* members before it and room the levels of nesting left
parse_members(s, i, room, acc) ==
    IF At(s, i) # Quote THEN DecodeError
    ELSE With(scan_string(s, i), LAMBDA key :
      IF key.st # "ok" THEN key
      ELSE With(SkipWs(s, key.pos), LAMBDA colon :
        IF At(s, colon) # ":" THEN DecodeError
        ELSE With(scan_once(s, SkipWs(s, colon + 1), room), LAMBDA val :
          IF val.st # "ok" THEN val
          ELSE With(SkipWs(s, val.pos), LAMBDA n :
            With(DictSet(acc, key.val.v, val.val), LAMBDA next :
              IF At(s, n) = "}" THEN Ok(next, n + 1)
              ELSE IF At(s, n) = ","
              THEN parse_members(s, SkipWs(s, n + 1), room, next)
              ELSE DecodeError)))))

\* the items of an array from the value at position i on
parse_items(s, i, room, acc) ==
    With(scan_once(s, i, room), LAMBDA val :
      IF val.st # "ok" THEN val
      ELSE With(SkipWs(s, val.pos), LAMBDA n :
        With(Append(acc, val.val), LAMBDA next :
          IF At(s, n) = "]" THEN Ok(JList(next), n + 1)
          ELSE IF At(s, n) = ","
          THEN parse_items(s, SkipWs(s, n + 1), room, next)
          ELSE DecodeError)))

\* scan_once: the value that starts at position i, with room levels of
\* nesting left before the recursion limit
scan_once(s, i, room) ==
    LET c == At(s, i)
        j == SkipWs(s, i + 1)
    IN IF c = Quote THEN scan_string(s, i)
       ELSE IF c = "{"
       THEN IF room = 0 THEN RecursionError
            ELSE IF At(s, j) = "}" THEN Ok(JDict(<<>>), j + 1)
            ELSE parse_members(s, j, room - 1, JDict(<<>>))
       ELSE IF c = "["
       THEN IF room = 0 THEN RecursionError
            ELSE IF At(s, j) = "]" THEN Ok(JList(<<>>), j + 1)
            ELSE parse_items(s, j, room - 1, <<>>)
       ELSE IF c = "null" THEN Ok(JNull, i + 1)
       ELSE IF IsDigit(c)
       THEN Ok(JNum(DigitsValue(s, i, NumberEnd(s, i))), NumberEnd(s, i) + 1)
       ELSE DecodeError

\* the JSON decoder: one value, whitespace around it, nothing else
decode(s, room) ==
    With(scan_once(s, SkipWs(s, 1), room), LAMBDA r :
      IF r.st # "ok" THEN r
      ELSE IF SkipWs(s, r.pos) <= Len(s) THEN DecodeError
      ELSE r)

\* json.loads as the program calls it
json_loads(s) == decode(s, RecursionLimit)

\* what a reader of the text finds in it, no limit on the nesting
Parsed(s) == decode(s, Len(s) + 1)

EscapeAll(s) == [i \in 1..Len(s) |-> Escape(s[i])]

\* json.dumps(value, ensure_ascii=False): ", " and ": " as separators
RECURSIVE json_dumps(_)
json_dumps(val) ==
    IF val.t = "str" THEN <<Quote>> \o EscapeAll(val.v) \o <<Quote>>
    ELSE IF val.t = "num" THEN NumberText(val.v[1])
    ELSE IF val.t = "null" THEN <<"null">>
    ELSE IF val.t = "list"
    THEN <<"[">>
         \o JoinWith(<<",", "sp">>, [i \in 1..Len(val.v) |-> json_dumps(val.v[i])])
         \o <<"]">>
    ELSE <<"{">>
         \o JoinWith(<<",", "sp">>,
                     [i \in 1..Len(val.v) |->
                         <<Quote>> \o EscapeAll(val.v[i].k) \o <<Quote, ":", "sp">>
                         \o json_dumps(val.v[i].val)])
         \o <<"}">>

-----------------------------------------------------------------------------
(* The response resilience layer: ensure_json (openai_client.py), then      *)
(* _normalize_json (engine.py)                                              *)

FirstIndex(s, c) ==
    LET at == {i \in 1..Len(s) : s[i] = c} IN IF at = {} THEN 0 ELSE Min(at)
LastIndex(s, c) ==
    LET at == {i \in 1..Len(s) : s[i] = c} IN IF at = {} THEN 0 ELSE Max(at)

\* accept any '{' and any '}' of the trimmed text, in either order
ensure_json_any_braces(reply) ==
    LET t == Strip(reply)
        start == FirstIndex(t, "{")
        end == LastIndex(t, "}")
    IN IF start > 0 /\ end > 0
       THEN [raised |-> FALSE, text |-> SubSeq(t, MinOf(start, end), MaxOf(start, end))]
       ELSE [raised |-> TRUE, text |-> <<>>]

\* ensure_json: the trimmed text when it starts with '{' and ends with '}',
\* else the part from the first '{' to the last '}', else ValueError
ensure_json(reply) ==
    LET t == Strip(reply)
        start == FirstIndex(t, "{")
        end == LastIndex(t, "}")
    IN IF t # <<>> /\ t[1] = "{" /\ t[Len(t)] = "}"
       THEN [raised |-> FALSE, text |-> t]
       ELSE IF start > 0 /\ end > start
       THEN [raised |-> FALSE, text |-> SubSeq(t, start, end)]
       ELSE [raised |-> TRUE, text |-> <<>>]

\* s without the characters of the set
RemoveAll(s, chars) == SelectSeq(s, LAMBDA c : c \notin chars)

\* the typographic double quotes replaced by plain ones
PlainQuotes(s) == [i \in 1..Len(s) |-> IF s[i] = "ldq" THEN Quote ELSE s[i]]

\* re.sub(r",\s*([}\]])", r"\1", s): a comma, and the whitespace after it,
\* dropped before a closing brace or bracket
RECURSIVE DropTrailingCommasFrom(_, _)
DropTrailingCommasFrom(s, i) ==
    IF i > Len(s) THEN <<>>
    ELSE IF s[i] = "," /\ At(s, SkipWs(s, i + 1)) \in {"}", "]"}
    THEN <<At(s, SkipWs(s, i + 1))>> \o DropTrailingCommasFrom(s, SkipWs(s, i + 1) + 1)
    ELSE <<s[i]>> \o DropTrailingCommasFrom(s, i + 1)

\* _repair_json_text: the four transforms, in the order of the code (the
\* replies of the model hold no typographic single quote)
repair_json_text(s) ==
    RemoveAll(DropTrailingCommasFrom(PlainQuotes(RemoveAll(s, {"bom"})), 1), {"ctl"})

\* _safe_load_json: json.loads, and once more on the repaired text after a
\* JSONDecodeError; only that error is caught
safe_load_json(s) ==
    With(json_loads(s), LAMBDA first :
      IF first.st = "ok" THEN [raised |-> "", val |-> first.val]
      ELSE IF first.st # "JSONDecodeError" THEN [raised |-> first.st, val |-> JNull]
      ELSE With(repair_json_text(s), LAMBDA repaired :
        IF repaired # <<>> /\ repaired # s
        THEN With(json_loads(repaired), LAMBDA second :
               IF second.st = "ok" THEN [raised |-> "", val |-> second.val]
               ELSE IF second.st = "JSONDecodeError" THEN [raised |-> "", val |-> JNull]
               ELSE [raised |-> second.st, val |-> JNull])
        ELSE [raised |-> "", val |-> JNull]))

\* re.search(r'"summary"\s*:\s*"([^"]*)"', s) started at position i
QuotedSummaryAt(s, i) ==
    LET colon == SkipWs(s, i + 3)
        open == SkipWs(s, colon + 1)
        close == StringEnd(s, open)
    IN IF /\ At(s, i) = Quote /\ At(s, i + 1) = "summary" /\ At(s, i + 2) = Quote
          /\ At(s, colon) = ":" /\ At(s, open) = Quote /\ close > 0
       THEN [found |-> TRUE, group |-> SubSeq(s, open + 1, close - 1)]
       ELSE [found |-> FALSE, group |-> <<>>]

\* re.search(r"summary\s*[:]\s*([^\n\r]+)", s) started at position i: the
\* whitespace run after the colon gives characters back until the group has
\* one that is no line break; the group runs to the end of the line
LooseSummaryAt(s, i) ==
    LET colon == SkipWs(s, i + 1)
        starts == {p \in (colon + 1)..MinOf(SkipWs(s, colon + 1), Len(s)) : s[p] # "nl"}
        from == Max(starts)
        breaks == {p \in from..Len(s) : s[p] = "nl"}
        to == IF breaks = {} THEN Len(s) ELSE Min(breaks) - 1
    IN IF At(s, i) = "summary" /\ At(s, colon) = ":" /\ starts # {}
       THEN [found |-> TRUE, group |-> SubSeq(s, from, to)]
       ELSE [found |-> FALSE, group |-> <<>>]

\* str.strip('"')
StripQuotes(s) ==
    LET keep == {i \in 1..Len(s) : s[i] # Quote}
    IN IF keep = {} THEN <<>> ELSE SubSeq(s, Min(keep), Max(keep))

\* _extract_summary: the quoted pattern, then the loose one, then ""
extract_summary(s) ==
    With({i \in 1..Len(s) : QuotedSummaryAt(s, i).found}, LAMBDA quoted :
      IF quoted # {} THEN QuotedSummaryAt(s, Min(quoted)).group
      ELSE With({i \in 1..Len(s) : LooseSummaryAt(s, i).found}, LAMBDA loose :
        IF loose # {} THEN StripQuotes(Strip(LooseSummaryAt(s, Min(loose)).group))
        ELSE <<>>))

Summary == <<"summary">>
Risks == <<"risks">>
RawText == <<"raw_text">>

\* _normalize_json after the load: the dict with summary a str, risks a list
\* and raw_text when there is neither a raw_text nor a non-empty summary
\* engine.py:218-219
as_dict(loaded) == IF loaded.t = "dict" THEN loaded ELSE JDict(<<>>)

\* engine.py:220-222
with_summary(s, data) ==
    IF DictGet(data, Summary).t # "str"
    THEN DictSet(data, Summary, JStr(extract_summary(s)))
    ELSE data

\* the risks default written over whatever the reply supplied
with_risks_reset(data) == DictSet(data, Risks, JList(<<>>))

\* engine.py:223-224
with_risks(data) ==
    IF ~DictHas(data, Risks) \/ DictGet(data, Risks).t # "list"
    THEN DictSet(data, Risks, JList(<<>>))
    ELSE data

\* the raw_text default written whenever the summary is empty, over a
\* raw_text member of the reply
with_raw_text_overwrite(s, data) ==
    IF DictGet(data, Summary).v = <<>>
    THEN DictSet(data, RawText, JStr(s))
    ELSE data

\* engine.py:225-226
with_raw_text(s, data) ==
    IF ~DictHas(data, RawText) /\ DictGet(data, Summary).v = <<>>
    THEN DictSet(data, RawText, JStr(s))
    ELSE data

normalized_data(s, loaded) ==
    with_raw_text(s, with_risks(with_summary(s, as_dict(loaded))))

\* _normalize_json: the text of the normalized dict, or the error raised
normalize_json(s) ==
    With(safe_load_json(s), LAMBDA loaded :
      IF loaded.raised # "" THEN [raised |-> loaded.raised, text |-> <<>>]
      ELSE [raised |-> "", text |-> json_dumps(normalized_data(s, loaded.val))])

-----------------------------------------------------------------------------
(* The resilience layer run on one reply *)

\* n arrays inside each other around a number
RECURSIVE Nested(_)
Nested(n) == IF n = 0 THEN <<"1">> ELSE <<"[">> \o Nested(n - 1) \o <<"]">>

\* the members a reply object is made of
Members ==
    { <<Quote, "summary", Quote, ":", "sp", Quote, "x", Quote>>,
      <<Quote, "summary", Quote, ":", Quote, Quote>>,
      <<Quote, "summary", Quote, ":", "sp", "1">>,
      <<Quote, "risks", Quote, ":", "sp">> \o Nested(1),
      <<Quote, "risks", Quote, ":", "null">>,
      <<Quote, "raw_text", Quote, ":", Quote, "x", Quote>>,
      <<Quote, "x", Quote, ":">> \o Nested(RecursionLimit),
      <<Quote, "x", Quote, ":", "ctl", "1">>,
      <<Quote, "x", Quote, ":", "1">>,
      <<"summary", ":", "sp", Quote, "x", Quote, "nl">>,
      <<"ldq", "summary", "ldq", ":", "ldq", "x", "ldq">> }

\* an object text: the members, comma-separated, with or without a comma
\* after the last one
ObjectText(ms, trailing) ==
    <<"{">> \o JoinWith(<<",">>, ms) \o (IF trailing THEN <<",", "sp">> ELSE <<>>)
    \o <<"}">>

ObjectTexts ==
    {ObjectText(ms, trailing) : ms \in SeqsUpTo(Members, MaxMembers), trailing \in BOOLEAN}

\* the text a reply can carry before and after its object
Wrappings == {<<<<>>, <<>>>>, <<<<"x", "sp">>, <<"nl", "x">>>>}

\* replies without an opening brace followed by a closing one
BracelessReplies ==
    {<<>>, <<"sp">>, <<"x">>, <<"{">>, <<"}">>, <<"}", "sp", "{">>,
     <<"[", "1", "]">>}

Replies ==
    {w[1] \o o \o w[2] : w \in Wrappings, o \in ObjectTexts}
    \cup BracelessReplies

JsonInit ==
    /\ FilterOff
    /\ ConfigOff
    /\ MemoryOff
    /\ IndexOff
    /\ AgainOff
    /\ ScoringOff
    /\ RunOff
    /\ ChunkOff
    /\ UsageOff
    /\ RetrievalOff
    /\ FileOff
    /\ SharedOff
    /\ response_text \in Replies
    /\ json_text = <<>>
    /\ normalized = <<>>
    /\ jerr = ""
    /\ jpc = "reply"

\* openai_client.py:75-82: the candidate object text is found
EnsureJson ==
    /\ jpc = "reply"
    /\ ~ensure_json(response_text).raised
    /\ json_text' = ensure_json(response_text).text
    /\ jpc' = "candidate"
    /\ UNCHANGED <<response_text, normalized, jerr>>
    /\ JsonFrame

\* openai_client.py:83: no '{' with a '}' after it
EnsureJsonRaises ==
    /\ jpc = "reply"
    /\ ensure_json(response_text).raised
    /\ jerr' = "ValueError"
    /\ jpc' = "raised"
    /\ UNCHANGED <<response_text, json_text, normalized>>
    /\ JsonFrame

\* engine.py:216-227: the candidate is loaded, defaulted and written back
NormalizeJson ==
    /\ jpc = "candidate"
    /\ normalize_json(json_text).raised = ""
    /\ normalized' = normalize_json(json_text).text
    /\ jpc' = "normalized"
    /\ UNCHANGED <<response_text, json_text, jerr>>
    /\ JsonFrame

\* engine.py:217, 230-240: json.loads raises an error that _safe_load_json
\* does not catch
NormalizeJsonRaises ==
    /\ jpc = "candidate"
    /\ normalize_json(json_text).raised # ""
    /\ jerr' = normalize_json(json_text).raised
    /\ jpc' = "raised"
    /\ UNCHANGED <<response_text, json_text, normalized>>
    /\ JsonFrame

JsonNext ==
    \/ EnsureJson
    \/ EnsureJsonRaises
    \/ NormalizeJson
    \/ NormalizeJsonRaises

SpecJson == JsonInit /\ [][JsonNext]_vars

-----------------------------------------------------------------------------
(* The audit run: run_audit (engine.py), in the chunked mode                 *)
(* (law_retrieval = 3, _run_chunked_audit) and in the non-chunked ones       *)

\* seq[::-1]
Reversed(seq) == [i \in 1..Len(seq) |-> seq[Len(seq) + 1 - i]]

\* the selector with the passages of equal score taken last first
retrieve_top_articles_late_ties(query, arts, k, full, qe, generated) ==
    IF full THEN Positions(arts)
    ELSE IF IsBlank(query) THEN SliceTo(Positions(arts), k)
    ELSE IF arts = <<>> THEN <<>>
    ELSE top_positions(
             Reversed(scored_list(cosine_norms(qe, resolve_embeddings(arts, generated)),
                                  normalize_scores(bm25_scores(query, arts)))),
             k)

\* retrieve_top_articles as a function of its arguments and of the vectors
\* the embedding collaborator answers with: the corpus positions returned
retrieve_top_articles(query, arts, k, full, qe, generated) ==
    IF full THEN Positions(arts)
    ELSE IF IsBlank(query) THEN SliceTo(Positions(arts), k)
    ELSE IF arts = <<>> THEN <<>>
    ELSE top_positions(
             scored_list(cosine_norms(qe, resolve_embeddings(arts, generated)),
                         normalize_scores(bm25_scores(query, arts))),
             k)

\* the batches it sends to embed_texts, in order
embed_batches(query, arts, full) ==
    IF full \/ IsBlank(query) \/ arts = <<>> THEN <<>>
    ELSE IF Missing(arts) = {} THEN <<<<query>>>>
    ELSE <<<<query>>, MissingTexts(arts, 1)>>

\* ensure_json then _normalize_json on a reply: the error raised, "" when
\* none, and the normalized text
NoJsonObject == "ValueError: No JSON object found in response"

absorb_reply(reply) ==
    With(ensure_json(reply), LAMBDA candidate :
      IF candidate.raised THEN [error |-> NoJsonObject, text |-> <<>>]
      ELSE With(normalize_json(candidate.text), LAMBDA norm :
        [error |-> norm.raised, text |-> norm.text]))

ChunkIndex == <<"chunk_index">>
ChunkTotal == <<"chunk_total">>
ChunkText == <<"chunk_text">>
ChunkResults == <<"chunk_results">>

\* d.setdefault(key, val)
DictSetDefault(d, key, val) == IF DictHas(d, key) THEN d ELSE DictSet(d, key, val)

\* the entry with the three fields kept as the reply gave them
chunk_entry_keep_reply(json_text_, index, total, chunk) ==
    DictSetDefault(
        DictSetDefault(
            DictSetDefault(json_loads(json_text_).val, ChunkIndex, JNum(index)),
            ChunkTotal, JNum(total)),
        ChunkText, JStr(chunk))

\* engine.py:116-119: the entry of chunk_results for a chunk
chunk_entry(json_text_, index, total, chunk) ==
    DictSet(
        DictSet(
            DictSet(json_loads(json_text_).val, ChunkIndex, JNum(index)),
            ChunkTotal, JNum(total)),
        ChunkText, JStr(chunk))

\* engine.py:135-137: the text of the final object
final_json(summary_json, entries) ==
    json_dumps(DictSet(json_loads(summary_json).val, ChunkResults, JList(entries)))

\* engine.py:142-150: the legal context of a prompt, one block per selected
\* passage: "[source_path] article_no", the stripped content, line feeds; the
\* passage at corpus position i carries article_no i
format_legal_context(arts, positions) ==
    JoinWith(<<"nl">>,
             [n \in 1..Len(positions) |->
                 <<"[", "src", "]", "sp">> \o NumberText(positions[n]) \o <<"nl">>
                 \o Strip(arts[positions[n]].content) \o <<"nl">>])

\* the request of a generation call: what build_chunk_user_prompt,
\* build_summary_prompt and build_user_prompt put into the prompt besides
\* their fixed text (the memory is read from a file outside the run and left
\* out)
chunk_request_no_previous(chunk, legal_context, done, index, total) ==
    [kind |-> "chunk", chunk_index |-> index, chunk_total |-> total,
     contract_text |-> chunk, legal_context |-> legal_context,
     previous_results |-> <<>>]

chunk_request(chunk, legal_context, done, index, total) ==
    [kind |-> "chunk", chunk_index |-> index, chunk_total |-> total,
     contract_text |-> chunk, legal_context |-> legal_context,
     previous_results |-> JoinWith(<<"nl", "nl">>, done)]

summary_request(done) ==
    [kind |-> "merge", chunk_index |-> 0, chunk_total |-> 0,
     contract_text |-> <<>>, legal_context |-> <<>>,
     previous_results |-> JoinWith(<<"nl", "nl">>, done)]

\* engine.py:153-156: text[:max_chars] when the text is longer
truncate(s, n) == IF Len(s) <= n THEN s ELSE SubSeq(s, 1, n)

\* the prompt of the non-chunked modes with the document cut to
\* contract_max_chars
user_request_truncated(contract, legal_context) ==
    [kind |-> "whole", chunk_index |-> 0, chunk_total |-> 0,
     contract_text |-> truncate(contract, config.contract_max_chars),
     legal_context |-> legal_context, previous_results |-> <<>>]

\* prompt.py:123-139: the prompt of the single call of the non-chunked modes
user_request(contract, legal_context) ==
    [kind |-> "whole", chunk_index |-> 0, chunk_total |-> 0,
     contract_text |-> contract, legal_context |-> legal_context,
     previous_results |-> <<>>]

\* a call in the log: the request, the reply unless the call raised, and the
\* error the client raised, "" when none
Call(request, reply, failed, client_error) ==
    [request |-> request, reply |-> reply, failed |-> failed,
     client_error |-> client_error]

\* the documents of the runs: blank ones, one paragraph after a space, and n
\* paragraphs between blank lines, the last one longer than the others
RunDocuments ==
    {<<>>, <<"sp", "nl">>, <<"sp", "a", "b">>}
    \cup {JoinWith(<<"nl", "nl">>,
                   [i \in 1..n |-> IF i = n THEN <<"a", "b">> ELSE <<"a">>]) :
             n \in 2..MaxRunParas}

\* the corpora: none, one passage with a stored embedding, two passages of
\* which the first has none
RunCorpora ==
    { <<>>,
      <<[content |-> <<"b">>, embedding |-> <<0, 1>>]>>,
      <<[content |-> <<"a">>, embedding |-> <<>>],
        [content |-> <<"a", "sp", "b">>, embedding |-> <<1, 0>>]>> }

\* config.py:9-22: the fields of AppConfig the run reads; law_retrieval 1 and
\* 2 are the non-chunked modes, 3 the chunked one
RunConfigs ==
    { [contract_max_chars |-> 2, max_articles |-> 1, use_full_artical |-> FALSE,
       law_retrieval |-> 3],
      [contract_max_chars |-> 4, max_articles |-> 1, use_full_artical |-> FALSE,
       law_retrieval |-> 3],
      [contract_max_chars |-> 2, max_articles |-> 1, use_full_artical |-> TRUE,
       law_retrieval |-> 3],
      [contract_max_chars |-> 2, max_articles |-> 1, use_full_artical |-> TRUE,
       law_retrieval |-> 1],
      [contract_max_chars |-> 2, max_articles |-> 1, use_full_artical |-> FALSE,
       law_retrieval |-> 2] }

\* config.py:61: the configurations from_env builds, which the entry points
\* use
EnvConfigs == {c \in RunConfigs : c.use_full_artical = (c.law_retrieval = 1)}

\* the replies of the generation collaborator, each with the usage it reports
ReplyGood ==
    <<"{", Quote, "summary", Quote, ":", "sp", Quote, "x", Quote, ",", "sp",
      Quote, "risks", Quote, ":", "sp", "[", "]", "}">>
ReplyOwnFields ==
    <<"x", "sp", "{", Quote, "chunk_index", Quote, ":", "9", ",",
      Quote, "chunk_text", Quote, ":", Quote, "x", Quote, ",",
      Quote, "chunk_results", Quote, ":", "null", ",", "}", "nl">>
ReplyNoObject == <<"x">>
ReplyBracesReversed == <<"}", "sp", "{">>
ReplyTooDeep == <<"{", Quote, "x", Quote, ":">> \o Nested(RecursionLimit) \o <<"}">>

GenOutcomes ==
    { [reply |-> ReplyGood, usage |-> extract_usage(10, 3, 5)],
      [reply |-> ReplyOwnFields, usage |-> extract_usage(3, 7, 2)],
      [reply |-> ReplyNoObject, usage |-> extract_usage(7, 1, 2)],
      [reply |-> ReplyBracesReversed, usage |-> extract_usage(0, 0, 0)],
      [reply |-> ReplyTooDeep, usage |-> extract_usage(0, 0, 0)] }

\* what the client of the generation collaborator does on a request: it
\* answers with a content and a usage block, answers with no content, or raises
ClientErrors == {"APIConnectionError"}
EmbedErrors == {"APITimeoutError", "RateLimitError"}
EmptyResponse == "ValueError: OpenAI response was empty"

ClientResponses ==
    {[raised |-> "", content |-> g.reply, usage |-> g.usage] : g \in GenOutcomes}
    \cup {[raised |-> "", content |-> <<>>, usage |-> extract_usage(7, 1, 0)]}
    \cup {[raised |-> e, content |-> <<>>, usage |-> empty_token_usage] :
             e \in ClientErrors}

\* the call with every error of the client swallowed
chat_complete_with_usage_swallow(response) ==
    [raised |-> "", content |-> response.content, usage |-> response.usage]

\* openai_client.py:52-72: the content and the usage of the response, or the
\* error raised: the client's own, re-raised as it is, or the one for an
\* empty content
chat_complete_with_usage(response) ==
    IF response.raised # ""
    THEN [raised |-> response.raised, content |-> <<>>, usage |-> empty_token_usage]
    ELSE IF response.content = <<>>
    THEN [raised |-> EmptyResponse, content |-> <<>>, usage |-> empty_token_usage]
    ELSE [raised |-> "", content |-> response.content, usage |-> response.usage]

EmptyDocument == "ValueError: Contract text is empty"
NoLegalArticles == "ValueError: No legal articles found in legal-workspace"
NoResult == [raw_json |-> <<>>, token_usage |-> empty_token_usage]

\* engine.py:30: not contract_text.strip()
IsEmptyContractUnstripped(contract) == contract = <<>>

IsEmptyContract(contract) == IsBlank(contract)

\* engine.py:86: where the loop over the chunks goes once `done` chunks of
\* `total` are recorded
after_chunk_short(done, total) ==
    IF done + 1 >= total THEN "merge" ELSE "retrieve"

after_chunk(done, total) ==
    IF done = total THEN "merge" ELSE "retrieve"

\* A run starts in run_audit ("direct"), or in an entry point that loads the
\* corpus with _load_legal_articles first ("loader": cli.py:28-30,
\* server.py:239-240).
RunInit ==
    /\ FilterOff
    /\ ConfigOff
    /\ MemoryOff
    /\ IndexOff
    /\ AgainOff
    /\ ScoringOff
    /\ ChunkOff
    /\ UsageOff
    /\ RetrievalOff
    /\ JsonOff
    /\ FileOff
    /\ SharedOff
    /\ document \in RunDocuments
    /\ legal_articles \in RunCorpora
    /\ config \in RunConfigs
    /\ entry \in {"direct", "loader"}
    /\ entry = "loader" => config \in EnvConfigs
    /\ index_embeds = <<>>
    /\ run_chunks = <<>>
    /\ results = <<>>
    /\ chunk_results = <<>>
    /\ run_usage = empty_token_usage
    /\ run_selected = <<>>
    /\ embed_log = <<>>
    /\ calls = <<>>
    /\ result = NoResult
    /\ error = ""
    /\ pc = IF entry = "loader" THEN "load" ELSE "start"

\* the check left out: no corpus is refused
no_articles_never(arts) == FALSE

\* cli.py:44: not articles
no_articles(arts) == arts = <<>>

\* cli.py:43-50: the workspace holds no passage
LoadLegalArticlesRaises ==
    /\ pc = "load"
    /\ no_articles(legal_articles)
    /\ error' = NoLegalArticles
    /\ pc' = "raised"
    /\ UNCHANGED <<document, legal_articles, config, entry, index_embeds,
                   run_chunks, results, chunk_results, run_usage, run_selected,
                   embed_log, calls, result>>
    /\ RunFrame

\* cli.py:51-55: the passages are read back from the index, each with the
\* embedding stored there; an index that is not current is rebuilt first, with
\* one embedding request for the contents (cli.py:201-216, at most 64 a batch)
LoadLegalArticles ==
    /\ pc = "load"
    /\ ~no_articles(legal_articles)
    /\ \E stored \in EmbedVectors :
          legal_articles' =
              [i \in 1..Len(legal_articles) |->
                  [content |-> legal_articles[i].content, embedding |-> stored]]
    /\ \E current \in BOOLEAN :
          index_embeds' =
              IF current THEN <<>>
              ELSE <<[i \in 1..Len(legal_articles) |-> legal_articles[i].content]>>
    /\ pc' = "start"
    /\ UNCHANGED <<document, config, entry, run_chunks, results, chunk_results,
                   run_usage, run_selected, embed_log, calls, result, error>>
    /\ RunFrame

\* cli.py:83: the embedding request of the rebuild raises
LoadLegalArticlesEmbedRaises ==
    /\ pc = "load"
    /\ ~no_articles(legal_articles)
    /\ index_embeds' = <<[i \in 1..Len(legal_articles) |-> legal_articles[i].content]>>
    /\ \E e \in EmbedErrors : error' = e
    /\ pc' = "raised"
    /\ UNCHANGED <<document, legal_articles, config, entry, run_chunks, results,
                   chunk_results, run_usage, run_selected, embed_log, calls,
                   result>>
    /\ RunFrame

\* engine.py:30-31 and 72-74: a blank document
RunAuditRaisesEmpty ==
    /\ pc = "start"
    /\ \/ IsEmptyContract(document)
       \/ /\ config.law_retrieval = 3
          /\ chunk_contract_text(document, config.contract_max_chars) = <<>>
    /\ error' = EmptyDocument
    /\ pc' = "raised"
    /\ UNCHANGED <<document, legal_articles, config, entry, index_embeds,
                   run_chunks, results, chunk_results, run_usage, run_selected,
                   embed_log, calls, result>>
    /\ RunFrame

\* engine.py:38-39 and 72-85: the document is cut into chunks
StartChunked ==
    /\ pc = "start"
    /\ ~IsEmptyContract(document)
    /\ config.law_retrieval = 3
    /\ chunk_contract_text(document, config.contract_max_chars) # <<>>
    /\ run_chunks' = chunk_contract_text(document, config.contract_max_chars)
    /\ pc' = "retrieve"
    /\ UNCHANGED <<document, legal_articles, config, entry, index_embeds,
                   results, chunk_results, run_usage, run_selected, embed_log,
                   calls, result, error>>
    /\ RunFrame

\* engine.py:91-96: the passages for the next chunk are selected
RetrieveChunk ==
    /\ pc = "retrieve"
    /\ \E qe \in EmbedVectors :
       \E generated \in [1..Cardinality(Missing(legal_articles)) -> EmbedVectors] :
          run_selected' =
              retrieve_top_articles(run_chunks[Len(results) + 1], legal_articles,
                                    config.max_articles, config.use_full_artical,
                                    qe, generated)
    /\ embed_log' =
          embed_log \o embed_batches(run_chunks[Len(results) + 1], legal_articles,
                                     config.use_full_artical)
    /\ pc' = "generate"
    /\ UNCHANGED <<document, legal_articles, config, entry, index_embeds,
                   run_chunks, results, chunk_results, run_usage, calls, result,
                   error>>
    /\ RunFrame

\* engine.py:91-96: an embedding request of the selection raises
RetrieveChunkRaises ==
    /\ pc = "retrieve"
    /\ \E n \in 1..Len(embed_batches(run_chunks[Len(results) + 1], legal_articles,
                                     config.use_full_artical)) :
          embed_log' =
              embed_log \o SubSeq(embed_batches(run_chunks[Len(results) + 1],
                                                legal_articles,
                                                config.use_full_artical), 1, n)
    /\ \E e \in EmbedErrors : error' = e
    /\ pc' = "raised"
    /\ UNCHANGED <<document, legal_articles, config, entry, index_embeds,
                   run_chunks, results, chunk_results, run_usage, run_selected,
                   calls, result>>
    /\ RunFrame

\* the request for the chunk in hand
NextChunkRequest ==
    chunk_request(run_chunks[Len(results) + 1],
                  format_legal_context(legal_articles, run_selected), results,
                  Len(results) + 1, Len(run_chunks))

\* engine.py:107-125: the reply for a chunk is normalized and recorded
ChunkDone ==
    /\ pc = "generate"
    /\ \E r \in ClientResponses : \E g \in {chat_complete_with_usage(r)} :
       \E a \in {absorb_reply(g.content)} :
          /\ g.raised = ""
          /\ a.error = ""
          /\ calls' = Append(calls, Call(NextChunkRequest, g.content, FALSE, r.raised))
          /\ results' = Append(results, a.text)
          /\ chunk_results' =
                Append(chunk_results,
                       chunk_entry(a.text, Len(results) + 1, Len(run_chunks),
                                   run_chunks[Len(results) + 1]))
          /\ run_usage' = merge_token_usage(run_usage, g.usage).total
    /\ pc' = after_chunk(Len(results) + 1, Len(run_chunks))
    /\ UNCHANGED <<document, legal_articles, config, entry, index_embeds,
                   run_chunks, run_selected, embed_log, result, error>>
    /\ RunFrame

\* engine.py:113-114: ensure_json or _normalize_json raises on the reply
ChunkReplyRaises ==
    /\ pc = "generate"
    /\ \E r \in ClientResponses : \E g \in {chat_complete_with_usage(r)} :
       \E a \in {absorb_reply(g.content)} :
          /\ g.raised = ""
          /\ a.error # ""
          /\ calls' = Append(calls, Call(NextChunkRequest, g.content, FALSE, r.raised))
          /\ error' = a.error
    /\ pc' = "raised"
    /\ UNCHANGED <<document, legal_articles, config, entry, index_embeds,
                   run_chunks, results, chunk_results, run_usage, run_selected,
                   embed_log, result>>
    /\ RunFrame

\* engine.py:107-112: the generation call raises
ChunkGenerateRaises ==
    /\ pc = "generate"
    /\ \E r \in ClientResponses : \E g \in {chat_complete_with_usage(r)} :
          /\ g.raised # ""
          /\ calls' = Append(calls, Call(NextChunkRequest, <<>>, TRUE, r.raised))
          /\ error' = g.raised
    /\ pc' = "raised"
    /\ UNCHANGED <<document, legal_articles, config, entry, index_embeds,
                   run_chunks, results, chunk_results, run_usage, run_selected,
                   embed_log, result>>
    /\ RunFrame

\* engine.py:126-139: the merge reply is normalized, the entries of the chunks
\* are put under chunk_results and the result is returned
MergeDone ==
    /\ pc = "merge"
    /\ \E r \in ClientResponses : \E g \in {chat_complete_with_usage(r)} :
       \E a \in {absorb_reply(g.content)} :
          /\ g.raised = ""
          /\ a.error = ""
          /\ calls' = Append(calls, Call(summary_request(results), g.content, FALSE,
                                         r.raised))
          /\ run_usage' = merge_token_usage(run_usage, g.usage).total
          /\ result' = [raw_json |-> final_json(a.text, chunk_results),
                        token_usage |-> run_usage']
    /\ pc' = "returned"
    /\ UNCHANGED <<document, legal_articles, config, entry, index_embeds,
                   run_chunks, results, chunk_results, run_selected, embed_log,
                   error>>
    /\ RunFrame

\* engine.py:133-134: ensure_json or _normalize_json raises on the merge reply
MergeReplyRaises ==
    /\ pc = "merge"
    /\ \E r \in ClientResponses : \E g \in {chat_complete_with_usage(r)} :
       \E a \in {absorb_reply(g.content)} :
          /\ g.raised = ""
          /\ a.error # ""
          /\ calls' = Append(calls, Call(summary_request(results), g.content, FALSE,
                                         r.raised))
          /\ error' = a.error
    /\ pc' = "raised"
    /\ UNCHANGED <<document, legal_articles, config, entry, index_embeds,
                   run_chunks, results, chunk_results, run_usage, run_selected,
                   embed_log, result>>
    /\ RunFrame

\* engine.py:127-132: the generation call raises on the merge call
MergeGenerateRaises ==
    /\ pc = "merge"
    /\ \E r \in ClientResponses : \E g \in {chat_complete_with_usage(r)} :
          /\ g.raised # ""
          /\ calls' = Append(calls, Call(summary_request(results), <<>>, TRUE,
                                         r.raised))
          /\ error' = g.raised
    /\ pc' = "raised"
    /\ UNCHANGED <<document, legal_articles, config, entry, index_embeds,
                   run_chunks, results, chunk_results, run_usage, run_selected,
                   embed_log, result>>
    /\ RunFrame

\* engine.py:40-45: in the non-chunked modes the passages are selected for
\* the whole document
RetrieveWhole ==
    /\ pc = "start"
    /\ ~IsEmptyContract(document)
    /\ config.law_retrieval # 3
    /\ \E qe \in EmbedVectors :
       \E generated \in [1..Cardinality(Missing(legal_articles)) -> EmbedVectors] :
          run_selected' =
              retrieve_top_articles(document, legal_articles, config.max_articles,
                                    config.use_full_artical, qe, generated)
    /\ embed_log' =
          embed_log \o embed_batches(document, legal_articles,
                                     config.use_full_artical)
    /\ pc' = "generate_whole"
    /\ UNCHANGED <<document, legal_articles, config, entry, index_embeds,
                   run_chunks, results, chunk_results, run_usage, calls, result,
                   error>>
    /\ RunFrame

\* engine.py:40-45: an embedding request of that selection raises
RetrieveWholeRaises ==
    /\ pc = "start"
    /\ ~IsEmptyContract(document)
    /\ config.law_retrieval # 3
    /\ \E n \in 1..Len(embed_batches(document, legal_articles,
                                     config.use_full_artical)) :
          embed_log' =
              embed_log \o SubSeq(embed_batches(document, legal_articles,
                                                config.use_full_artical), 1, n)
    /\ \E e \in EmbedErrors : error' = e
    /\ pc' = "raised"
    /\ UNCHANGED <<document, legal_articles, config, entry, index_embeds,
                   run_chunks, results, chunk_results, run_usage, run_selected,
                   calls, result>>
    /\ RunFrame

\* the request of the single call of the non-chunked modes
WholeRequest ==
    user_request(document, format_legal_context(legal_articles, run_selected))

\* engine.py:46-64: the single reply is normalized and returned
WholeDone ==
    /\ pc = "generate_whole"
    /\ \E r \in ClientResponses : \E g \in {chat_complete_with_usage(r)} :
       \E a \in {absorb_reply(g.content)} :
          /\ g.raised = ""
          /\ a.error = ""
          /\ calls' = Append(calls, Call(WholeRequest, g.content, FALSE, r.raised))
          /\ result' = [raw_json |-> a.text, token_usage |-> g.usage]
    /\ pc' = "returned"
    /\ UNCHANGED <<document, legal_articles, config, entry, index_embeds,
                   run_chunks, results, chunk_results, run_usage, run_selected,
                   embed_log, error>>
    /\ RunFrame

\* engine.py:62-63: ensure_json or _normalize_json raises on the reply
WholeReplyRaises ==
    /\ pc = "generate_whole"
    /\ \E r \in ClientResponses : \E g \in {chat_complete_with_usage(r)} :
       \E a \in {absorb_reply(g.content)} :
          /\ g.raised = ""
          /\ a.error # ""
          /\ calls' = Append(calls, Call(WholeRequest, g.content, FALSE, r.raised))
          /\ error' = a.error
    /\ pc' = "raised"
    /\ UNCHANGED <<document, legal_articles, config, entry, index_embeds,
                   run_chunks, results, chunk_results, run_usage, run_selected,
                   embed_log, result>>
    /\ RunFrame

\* engine.py:56-61: the generation call raises
WholeGenerateRaises ==
    /\ pc = "generate_whole"
    /\ \E r \in ClientResponses : \E g \in {chat_complete_with_usage(r)} :
          /\ g.raised # ""
          /\ calls' = Append(calls, Call(WholeRequest, <<>>, TRUE, r.raised))
          /\ error' = g.raised
    /\ pc' = "raised"
    /\ UNCHANGED <<document, legal_articles, config, entry, index_embeds,
                   run_chunks, results, chunk_results, run_usage, run_selected,
                   embed_log, result>>
    /\ RunFrame

Next ==
    \/ LoadLegalArticlesRaises
    \/ LoadLegalArticles
    \/ LoadLegalArticlesEmbedRaises
    \/ RunAuditRaisesEmpty
    \/ StartChunked
    \/ RetrieveChunk
    \/ RetrieveChunkRaises
    \/ ChunkDone
    \/ ChunkReplyRaises
    \/ ChunkGenerateRaises
    \/ MergeDone
    \/ MergeReplyRaises
    \/ MergeGenerateRaises
    \/ RetrieveWhole
    \/ RetrieveWholeRaises
    \/ WholeDone
    \/ WholeReplyRaises
    \/ WholeGenerateRaises

Spec == RunInit /\ [][Next]_vars

-----------------------------------------------------------------------------
(* The workspace guard: read_legal_file (tools/file_read.py)                 *)
(*                                                                           *)
(* A path is a record [abs, comps]: whether it starts at the root, and its   *)
(* components; a component is a sequence of symbols, ".txt" being one.  A    *)
(* resolved path is the sequence of the components below the root.           *)

MaxPathLen == 3

Ws == <<"w">>
Ws2 == <<"w", "2">>
LawFile == <<"f", ".txt">>
Link == <<"l">>
Up == <<"..">>

\* the file system: the directories /w and /w2, a file f.txt in each, and in
\* each a symbolic link l to the other directory
Files == {<<Ws, LawFile>>, <<Ws2, LawFile>>}
Links == [n \in {<<Ws, Link>>, <<Ws2, Link>>} |->
             IF n = <<Ws, Link>> THEN <<Ws2>> ELSE <<Ws>>]

\* os.path.realpath: the components are walked from the resolved path `at`;
\* ".." drops the last resolved component, a symbolic link is replaced by
\* its target, a name that does not exist is kept
RECURSIVE Walk(_, _)
Walk(at, rest) ==
    IF rest = <<>> THEN at
    ELSE IF Head(rest) = Up
    THEN Walk(IF at = <<>> THEN <<>> ELSE SubSeq(at, 1, Len(at) - 1), Tail(rest))
    ELSE IF Append(at, Head(rest)) \in DOMAIN Links
    THEN Walk(Links[Append(at, Head(rest))], Tail(rest))
    ELSE Walk(Append(at, Head(rest)), Tail(rest))

\* Path.resolve(): file_read.py:20-21
resolve(path, dir) == Walk(IF path.abs THEN <<>> ELSE dir, path.comps)

\* the resolved path as text
PathString(resolved) ==
    Concat([i \in 1..Len(resolved) |-> <<"/">> \o resolved[i]])

\* the test on the texts of the two paths
is_within_string_prefix(target, workspace) ==
    /\ Len(PathString(workspace)) <= Len(PathString(target))
    /\ SubSeq(PathString(target), 1, Len(PathString(workspace))) =
          PathString(workspace)

\* server.py:305-312: the lower-cased text of the target starts with the
\* lower-cased text of the workspace and a separator
is_within_string_prefix_lower(target, workspace) ==
    /\ Len(PathString(workspace)) < Len(PathString(target))
    /\ Lower(SubSeq(PathString(target), 1, Len(PathString(workspace)) + 1)) =
          Lower(PathString(workspace) \o <<"/">>)

\* file_read.py:30-35: target.relative_to(workspace) does not raise
is_within(target, workspace) ==
    /\ Len(workspace) <= Len(target)
    /\ SubSeq(target, 1, Len(workspace)) = workspace

\* extract_text.py:6-14 on a resolved path: a .txt file that exists is read;
\* anything else raises
extract_text_ok(target) ==
    /\ target \in Files
    /\ target[Len(target)][Len(target[Len(target)])] = ".txt"

PathNames == {Ws, Ws2, LawFile, Link, Up}
PathsAsked ==
    {[abs |-> a, comps |-> c] : a \in BOOLEAN, c \in SeqsUpTo(PathNames, MaxPathLen)}
Workspaces ==
    {[abs |-> TRUE, comps |-> <<Ws>>], [abs |-> TRUE, comps |-> <<Ws2, Link>>]}

FileInit ==
    /\ FilterOff
    /\ ConfigOff
    /\ MemoryOff
    /\ IndexOff
    /\ AgainOff
    /\ ScoringOff
    /\ ChunkOff
    /\ UsageOff
    /\ RetrievalOff
    /\ JsonOff
    /\ RunOff
    /\ SharedOff
    /\ cwd \in {<<>>, <<Ws>>}
    /\ file_path \in PathsAsked
    /\ file_path.abs => cwd = <<>>
    /\ workspace_dir \in Workspaces
    /\ reads = <<>>
    /\ read_result = [kind |-> "none", text_of |-> <<>>]
    /\ fpc = "start"

\* file_read.py:20-25: the path resolves inside the workspace and is read
ReadLegalFile ==
    /\ fpc = "start"
    /\ is_within(resolve(file_path, cwd), resolve(workspace_dir, cwd))
    /\ extract_text_ok(resolve(file_path, cwd))
    /\ reads' = Append(reads, resolve(file_path, cwd))
    /\ read_result' = [kind |-> "content", text_of |-> resolve(file_path, cwd)]
    /\ fpc' = "done"
    /\ UNCHANGED <<cwd, file_path, workspace_dir>>
    /\ FileFrame

\* file_read.py:22-23: the path resolves outside the workspace
ReadLegalFileDenied ==
    /\ fpc = "start"
    /\ ~is_within(resolve(file_path, cwd), resolve(workspace_dir, cwd))
    /\ read_result' = [kind |-> "PermissionError", text_of |-> <<>>]
    /\ fpc' = "done"
    /\ UNCHANGED <<cwd, file_path, workspace_dir, reads>>
    /\ FileFrame

\* file_read.py:24-27: extract_text raises on a path inside the workspace
ReadLegalFileFails ==
    /\ fpc = "start"
    /\ is_within(resolve(file_path, cwd), resolve(workspace_dir, cwd))
    /\ ~extract_text_ok(resolve(file_path, cwd))
    /\ reads' = Append(reads, resolve(file_path, cwd))
    /\ read_result' = [kind |-> "ValueError", text_of |-> <<>>]
    /\ fpc' = "done"
    /\ UNCHANGED <<cwd, file_path, workspace_dir>>
    /\ FileFrame

FileNext ==
    \/ ReadLegalFile
    \/ ReadLegalFileDenied
    \/ ReadLegalFileFails

SpecFile == FileInit /\ [][FileNext]_vars

-----------------------------------------------------------------------------
(* Runs side by side: processes that load the corpus through the index file  *)
(* (cli.py, _load_legal_articles) and read the memory (prompt.py,            *)
(* load_memory), and a feedback update that rewrites the memory              *)
(* (memory_update.py).  A step is one file operation or one request.         *)

MaxRuns == 2

Runs == 1..MaxRuns
Feedback == 0

\* the passages of the workspace and its snapshot (cli.py:162-179)
Corpus == <<"article1", "article2">>
Snapshot == "snapshot"

NoFile == [tables |-> FALSE, snapshot |-> "", rows |-> <<>>]
CurrentIndex == [tables |-> TRUE, snapshot |-> Snapshot, rows |-> Corpus]
StaleIndex == [tables |-> TRUE, snapshot |-> "older", rows |-> <<"article0">>]

\* the memory before the update, and once the summary of the feedback is
\* appended (memory_update.py:30-32)
InitialMemory == <<"memory">>
\* memory_update.py:53-60
append_memory(memory, new_summary) ==
    IF Strip(memory) = <<>> THEN Strip(new_summary)
    ELSE IF Strip(new_summary) = <<>> THEN Strip(memory)
    ELSE Strip(memory) \o <<"nl", "nl">> \o Strip(new_summary)
UpdatedMemory == append_memory(InitialMemory, <<"feedback">>)

TableExists == "OperationalError: table legal_articles already exists"
NoSuchTable == "OperationalError: no such table: legal_articles"

SharedInit ==
    /\ FilterOff
    /\ ConfigOff
    /\ MemoryOff
    /\ IndexOff
    /\ AgainOff
    /\ ScoringOff
    /\ ChunkOff
    /\ UsageOff
    /\ RetrievalOff
    /\ JsonOff
    /\ RunOff
    /\ FileOff
    /\ inodes \in {<<>>, <<CurrentIndex>>, <<StaleIndex>>}
    /\ index_path = Len(inodes)
    /\ memory_file = InitialMemory
    /\ procs = [p \in {Feedback} \cup Runs |->
                   [pc |-> IF p = Feedback THEN "feedback" ELSE "check",
                    conn |-> 0, articles |-> <<>>, memory |-> <<>>, error |-> ""]]

\* cli.py:182-198: the index file exists, holds the tables and the snapshot
\* of the workspace
is_sqlite_current ==
    /\ index_path # 0
    /\ inodes[index_path].tables
    /\ inodes[index_path].snapshot = Snapshot

\* cli.py:51-53: the index is compared with the workspace
RunCheckIndex ==
    \E p \in Runs :
        /\ procs[p].pc = "check"
        /\ procs' = [procs EXCEPT ![p].pc =
                        IF is_sqlite_current THEN "read" ELSE "unlink"]
        /\ UNCHANGED <<index_path, inodes, memory_file>>
        /\ SharedFrame

\* cli.py:77-78: the index file that is not current is removed
RunUnlinkIndex ==
    \E p \in Runs :
        /\ procs[p].pc = "unlink"
        /\ index_path' = 0
        /\ procs' = [procs EXCEPT ![p].pc = "embed"]
        /\ UNCHANGED <<inodes, memory_file>>
        /\ SharedFrame

\* cli.py:79-83: the passages are embedded
RunEmbedArticles ==
    \E p \in Runs :
        /\ procs[p].pc = "embed"
        /\ procs' = [procs EXCEPT ![p].pc = "create"]
        /\ UNCHANGED <<index_path, inodes, memory_file>>
        /\ SharedFrame

\* cli.py:84-105: sqlite3.connect opens the file at the path, creating it
\* when there is none, and the two tables are created
RunCreateTables ==
    \E p \in Runs :
        /\ procs[p].pc = "create"
        /\ index_path # 0 => ~inodes[index_path].tables
        /\ inodes' = IF index_path = 0
                     THEN Append(inodes, [NoFile EXCEPT !.tables = TRUE])
                     ELSE [inodes EXCEPT ![index_path].tables = TRUE]
        /\ index_path' = IF index_path = 0 THEN Len(inodes) + 1 ELSE index_path
        /\ procs' = [procs EXCEPT ![p].pc = "insert", ![p].conn = index_path']
        /\ UNCHANGED memory_file
        /\ SharedFrame

\* cli.py:86-97: CREATE TABLE raises, the file holds the table already
RunCreateTablesRaises ==
    \E p \in Runs :
        /\ procs[p].pc = "create"
        /\ index_path # 0
        /\ inodes[index_path].tables
        /\ procs' = [procs EXCEPT ![p].pc = "raised", ![p].error = TableExists]
        /\ UNCHANGED <<index_path, inodes, memory_file>>
        /\ SharedFrame

\* cli.py:106-133: the snapshot and the passages are inserted and committed,
\* into the file the connection was opened on
RunInsertCommit ==
    \E p \in Runs :
        /\ procs[p].pc = "insert"
        /\ inodes' = [inodes EXCEPT ![procs[p].conn].snapshot = Snapshot,
                                    ![procs[p].conn].rows = Corpus]
        /\ procs' = [procs EXCEPT ![p].pc = "read", ![p].conn = 0]
        /\ UNCHANGED <<index_path, memory_file>>
        /\ SharedFrame

\* cli.py:138-159: the passages are read from the file at the path
RunReadArticles ==
    \E p \in Runs :
        /\ procs[p].pc = "read"
        /\ index_path # 0
        /\ inodes[index_path].tables
        /\ procs' = [procs EXCEPT ![p].pc = "memory",
                                  ![p].articles = inodes[index_path].rows]
        /\ UNCHANGED <<index_path, inodes, memory_file>>
        /\ SharedFrame

\* cli.py:139-147: sqlite3.connect creates the file when there is none, and
\* SELECT raises, the file holds no table
RunReadArticlesRaises ==
    \E p \in Runs :
        /\ procs[p].pc = "read"
        /\ index_path # 0 => ~inodes[index_path].tables
        /\ inodes' = IF index_path = 0 THEN Append(inodes, NoFile) ELSE inodes
        /\ index_path' = IF index_path = 0 THEN Len(inodes) + 1 ELSE index_path
        /\ procs' = [procs EXCEPT ![p].pc = "raised", ![p].error = NoSuchTable]
        /\ UNCHANGED memory_file
        /\ SharedFrame

\* prompt.py:8-12, called at engine.py:47 and 77: the run reads the memory
RunLoadMemory ==
    \E p \in Runs :
        /\ procs[p].pc = "memory"
        /\ procs' = [procs EXCEPT ![p].pc = "done", ![p].memory = memory_file]
        /\ UNCHANGED <<index_path, inodes, memory_file>>
        /\ SharedFrame

\* memory_update.py:16-38: the update reads the memory and has the feedback
\* summarized
FeedbackLoadMemory ==
    /\ procs[Feedback].pc = "feedback"
    /\ procs' = [procs EXCEPT ![Feedback].pc = "open",
                              ![Feedback].memory = memory_file]
    /\ UNCHANGED <<index_path, inodes, memory_file>>
    /\ SharedFrame

\* memory_update.py:41: write_text opens the file for writing, which empties it
FeedbackOpenMemory ==
    /\ procs[Feedback].pc = "open"
    /\ memory_file' = <<>>
    /\ procs' = [procs EXCEPT ![Feedback].pc = "write"]
    /\ UNCHANGED <<index_path, inodes>>
    /\ SharedFrame

\* memory_update.py:41: the updated memory is written
FeedbackWriteMemory ==
    /\ procs[Feedback].pc = "write"
    /\ memory_file' = append_memory(procs[Feedback].memory, <<"feedback">>)
    /\ procs' = [procs EXCEPT ![Feedback].pc = "done"]
    /\ UNCHANGED <<index_path, inodes>>
    /\ SharedFrame

SharedNext ==
    \/ RunCheckIndex
    \/ RunUnlinkIndex
    \/ RunEmbedArticles
    \/ RunCreateTables
    \/ RunCreateTablesRaises
    \/ RunInsertCommit
    \/ RunReadArticles
    \/ RunReadArticlesRaises
    \/ RunLoadMemory
    \/ FeedbackLoadMemory
    \/ FeedbackOpenMemory
    \/ FeedbackWriteMemory

SpecShared == SharedInit /\ [][SharedNext]_vars

-----------------------------------------------------------------------------
(* The selector invoked a second time: retrieve_top_articles called again    *)
(* with the query, corpus, limit and flag of the first invocation            *)

\* the texts an invocation sends to the embedding collaborator
AskedTexts(query, arts, full) ==
    IF embed_batches(query, arts, full) = <<>> THEN {}
    ELSE {query} \cup {arts[i].content : i \in Missing(arts)}

\* embed_texts(texts=[contract_text])[0] with a collaborator that answers
\* the text t with answers[t]
embed_query(answers, query) == IF query \in DOMAIN answers THEN answers[query] ELSE <<>>

\* embed_texts(texts=texts) for the batch of passages without an embedding
embed_missing(answers, arts) ==
    [j \in 1..Len(MissingTexts(arts, 1)) |-> answers[MissingTexts(arts, 1)[j]]]

\* the collaborator gave the first invocation, for every text it was asked
\* about, the vector answers has for it
same_vectors(answers) ==
    Scoring =>
        /\ query_embedding = answers[contract_text]
        /\ \A i \in Missing(articles) :
              article_embeddings[i] = answers[articles[i].content]

\* retrieval.py:14-66: the second invocation, the collaborator answering
\* each text it is asked about with the vector it answered it with before
RetrieveAgain ==
    /\ rpc = "done"
    /\ again = <<>>
    /\ \E answers \in [AskedTexts(contract_text, articles, use_full_artical)
                            -> EmbedVectors] :
          /\ same_vectors(answers)
          /\ again' =
              [pc |-> "done",
               answers |-> answers,
               embed_calls |-> embed_batches(contract_text, articles, use_full_artical),
               selected |-> retrieve_top_articles(
                                contract_text, articles, max_articles,
                                use_full_artical,
                                embed_query(answers, contract_text),
                                embed_missing(answers, articles))]
    /\ AgainFrame

\* retrieval.py:36-40: the embedding collaborator raises in the second
\* invocation
RetrieveAgainRaises ==
    /\ rpc = "done"
    /\ again = <<>>
    /\ Scoring
    /\ again' = [pc |-> "raised", answers |-> <<>>,
                 embed_calls |-> <<<<contract_text>>>>, selected |-> <<>>]
    /\ AgainFrame

RetrievalTwiceNext ==
    \/ ReturnFullCorpus
    \/ ReturnFirstK
    \/ ReturnEmpty
    \/ EmbedQuery
    \/ EmbedQueryRaises
    \/ UseStoredEmbeddings
    \/ EmbedMissing
    \/ EmbedMissingRaises
    \/ ScoreAndSelect
    \/ RetrieveAgain
    \/ RetrieveAgainRaises

SpecRetrieveTwice == RetrievalInit /\ [][RetrievalTwiceNext]_vars

-----------------------------------------------------------------------------
(* The scorers on degenerate input: _bm25_score, _cosine_similarity_vector   *)
(* and retrieve_top_articles applied to passages without a token, to empty   *)
(* and zero vectors and to vectors of different lengths                      *)

MaxDegenerate == 2

\* the vectors: empty, zero, of one component, of two
DegenerateVectors == {<<>>, <<0, 0>>, <<1>>, <<1, 0>>}
\* the passages: with a token or without one; without an embedding, with a
\* zero one, with one of one component
DegenerateKinds ==
    {[content |-> c, embedding |-> e] :
        c \in {<<"a">>, <<".">>}, e \in {<<>>, <<0, 0>>, <<1>>}}
\* the queries: with a token, without one
DegenerateQueries == {<<"a">>, <<".">>}

ScoringInit ==
    /\ FilterOff
    /\ ConfigOff
    /\ MemoryOff
    /\ IndexOff
    /\ ChunkOff
    /\ UsageOff
    /\ RetrievalOff
    /\ JsonOff
    /\ RunOff
    /\ FileOff
    /\ SharedOff
    /\ AgainOff
    /\ scoring \in
          {[pc |-> "start", query |-> q, articles |-> arts, qe |-> v, generated |-> w,
            fn |-> "", args |-> <<>>, out |-> <<>>] :
              q \in DegenerateQueries,
              arts \in SeqsUpTo(DegenerateKinds, MaxDegenerate),
              v \in DegenerateVectors,
              w \in DegenerateVectors \ {<<1>>}}

\* the vectors embed_texts answers the batch of missing passages with: the
\* same one for each
GeneratedFor(arts, w) == [j \in 1..Cardinality(Missing(arts)) |-> w]

\* retrieval.py:89-112: _bm25_score on a passage of the corpus, with the
\* document length, the average length or the corpus size it is given set
\* to 0 or as the corpus has them
Bm25Score ==
    /\ scoring # <<>>
    /\ scoring.pc = "start"
    /\ \E i \in 1..Len(scoring.articles) :
       \E zero \in SUBSET {"doc_len", "avg_doc_len", "total_docs"} :
       \E toks \in {doc_tokens(scoring.articles)} :
       \E doc_len \in {IF "doc_len" \in zero THEN 0 ELSE Len(toks[i])} :
       \E avg \in {IF "avg_doc_len" \in zero THEN 0
                   ELSE avg_doc_length(doc_lengths(toks))} :
       \E total_docs \in {IF "total_docs" \in zero THEN 0
                          ELSE Len(scoring.articles)} :
          scoring' =
              [scoring EXCEPT
                 !.pc = "done", !.fn = "bm25",
                 !.args = <<doc_len, avg, total_docs>>,
                 !.out = <<bm25_score(Keys(tokenize(scoring.query)), toks[i],
                                      doc_len, avg, doc_freqs(toks), total_docs)>>]
    /\ ScoringFrame

\* retrieval.py:145-162: _cosine_similarity_vector on the query vector and
\* the vector of a passage, stored or generated
CosineSimilarity ==
    /\ scoring # <<>>
    /\ scoring.pc = "start"
    /\ \E i \in 1..Len(scoring.articles) :
       \E d \in {resolve_embeddings(scoring.articles,
                     GeneratedFor(scoring.articles, scoring.generated))[i]} :
          scoring' =
              [scoring EXCEPT
                 !.pc = "done", !.fn = "cosine",
                 !.args = <<scoring.qe, d>>,
                 !.out = <<cosine_similarity_vector(scoring.qe, d)>>]
    /\ ScoringFrame

\* retrieval.py:14-66: retrieve_top_articles on the corpus, the limit being
\* MaxDegenerate
RetrieveDegenerate ==
    /\ scoring # <<>>
    /\ scoring.pc = "start"
    /\ scoring' =
          [scoring EXCEPT
             !.pc = "done", !.fn = "retrieve",
             !.args = <<MaxDegenerate>>,
             !.out = retrieve_top_articles(
                         scoring.query, scoring.articles, MaxDegenerate, FALSE,
                         scoring.qe,
                         GeneratedFor(scoring.articles, scoring.generated))]
    /\ ScoringFrame

ScoringNext ==
    \/ Bm25Score
    \/ CosineSimilarity
    \/ RetrieveDegenerate

SpecScoring == ScoringInit /\ [][ScoringNext]_vars

-----------------------------------------------------------------------------
(* Properties of the chunker *)

\* s with every match of the paragraph separator \n\s*\n removed
RemoveSeparators(s) == Concat(ReSplit(s))

\* position i of s lies in a whitespace run that holds a blank line, that is
\* a run with a match of \n\s*\n in it
InBlankRun(s, i) ==
    /\ IsSpace(s[i])
    /\ LET lo == Min({j \in 1..i : \A m \in j..i : IsSpace(s[m])})
           hi == Max({j \in i..Len(s) : \A m \in i..j : IsSpace(s[m])})
       IN Cardinality({j \in lo..hi : s[j] = "nl"}) >= 2

RECURSIVE DropBlankRunsFrom(_, _)
DropBlankRunsFrom(s, i) ==
    IF i > Len(s) THEN <<>>
    ELSE IF InBlankRun(s, i) THEN DropBlankRunsFrom(s, i + 1)
    ELSE <<s[i]>> \o DropBlankRunsFrom(s, i + 1)

\* s with every whitespace run that holds a blank line removed
RemoveBlankRuns(s) == DropBlankRunsFrom(s, 1)

HasParaSep(s) == \E i \in 1..(Len(s) - 1) : s[i] = "nl" /\ s[i + 1] = "nl"

ExpectedSlices(p, n) ==
    [k \in 1..((Len(p) + n - 1) \div n) |->
        SubSeq(p, (k - 1) * n + 1, MinOf(k * n, Len(p)))]

\* C6: with a positive limit no chunk is longer than the limit, and a
\* paragraph longer than the limit comes out as its consecutive slices of
\* exactly the limit (the last may be shorter), between the packing of the
\* paragraphs before it and the packing of the paragraphs after it
C6_ChunkBound ==
    (cpc = "done" /\ max_chars > 0) =>
        /\ \A i \in 1..Len(chunks) : Len(chunks[i]) <= max_chars
        /\ Len(Strip(text)) > max_chars =>
             LET paras == Paragraphs(Strip(text))
             IN \A i \in 1..Len(paras) :
                  Len(paras[i]) > max_chars =>
                    chunks = PackParagraphs(SubSeq(paras, 1, i - 1), max_chars)
                             \o ExpectedSlices(paras[i], max_chars)
                             \o PackParagraphs(SubSeq(paras, i + 1, Len(paras)),
                                               max_chars)

\* a paragraph longer than the limit was sliced, its last slice shorter than
\* the limit, and two paragraphs after it were packed into one chunk
C6_Witness ==
    /\ cpc = "done"
    /\ max_chars > 0
    /\ Len(Strip(text)) > max_chars
    /\ LET paras == Paragraphs(Strip(text))
       IN \E i \in 1..Len(paras) :
            /\ Len(paras[i]) > max_chars
            /\ Len(paras[i]) % max_chars # 0
            /\ i + 2 <= Len(paras)
            /\ HasParaSep(chunks[Len(chunks)])

-----------------------------------------------------------------------------
(* Properties of the usage accumulator *)

\* the sum over the deltas ds of the integer under key f (0 when there is none)
RECURSIVE SumField(_, _)
SumField(ds, f) ==
    IF ds = <<>> THEN 0 ELSE IntOrZero(Head(ds)[f]) + SumField(Tail(ds), f)

\* the sum over the deltas ds of prompt_total - prompt_cached
RECURSIVE SumUncached(_)
SumUncached(ds) ==
    IF ds = <<>> THEN 0
    ELSE IntOrZero(Head(ds).prompt_total) - IntOrZero(Head(ds).prompt_cached)
         + SumUncached(Tail(ds))

\* the two deltas of the example: no prompt_uncached key
ExampleDeltas ==
    << [extract_usage(10, 3, 5) EXCEPT !.prompt_uncached = Absent],
       [extract_usage(7, 1, 2) EXCEPT !.prompt_uncached = Absent] >>

\* C8 as stated: after merges that returned, prompt_total, prompt_cached and
\* completion are the sums of the deltas' fields and prompt_uncached is the sum
\* of prompt_total - prompt_cached, with or without a prompt_uncached key; the
\* two example deltas give 17, 4, 13, 7
C8_UncachedIsDifference ==
    (upc = "run" /\ \A i \in 1..Len(merged) : merged[i] \in ExtractedDeltas \cup BareDeltas) =>
        /\ total_usage.prompt_total = SumField(merged, "prompt_total")
        /\ total_usage.prompt_cached = SumField(merged, "prompt_cached")
        /\ total_usage.completion = SumField(merged, "completion")
        /\ total_usage.prompt_uncached = SumUncached(merged)
        /\ merged = ExampleDeltas =>
             total_usage = [prompt_total |-> 17, prompt_cached |-> 4,
                            prompt_uncached |-> 13, completion |-> 7]

\* C8 amended: each of the four totals is the sum of the deltas' own field of
\* that name, an absent one counting 0: the two example deltas, which carry
\* no prompt_uncached, give prompt_uncached 0, and the same two as
\* _extract_usage builds them (prompt_uncached 7 and 6) give 13
C8_FieldwiseSums ==
    upc = "run" =>
        /\ total_usage.prompt_total = SumField(merged, "prompt_total")
        /\ total_usage.prompt_cached = SumField(merged, "prompt_cached")
        /\ total_usage.prompt_uncached = SumField(merged, "prompt_uncached")
        /\ total_usage.completion = SumField(merged, "completion")
        /\ merged = ExampleDeltas =>
             total_usage = [prompt_total |-> 17, prompt_cached |-> 4,
                            prompt_uncached |-> 0, completion |-> 7]
        /\ merged = <<extract_usage(10, 3, 5), extract_usage(7, 1, 2)>> =>
             total_usage = [prompt_total |-> 17, prompt_cached |-> 4,
                            prompt_uncached |-> 13, completion |-> 7]

\* the two example deltas have been merged
C8_Witness == upc = "run" /\ merged = ExampleDeltas

-----------------------------------------------------------------------------
(* Properties of the selector *)

\* the query is empty or made of whitespace only
BlankQuery == \A i \in 1..Len(contract_text) : contract_text[i] \in {"sp", "nl"}

\* the case of a scored selection: mode off, a non-blank query, a corpus
ScoredCase == ~use_full_artical /\ ~BlankQuery /\ Len(articles) > 0

Distinct(seq) == \A a, b \in 1..Len(seq) : a # b => seq[a] # seq[b]

\* C1: with full-corpus mode off, a non-blank query and a non-empty corpus,
\* the selector returns at most min(k, |corpus|) passages, each the passage
\* at a position of the corpus, and no position twice
C1_AtMostKFromCorpus ==
    (rpc = "done" /\ ScoredCase) =>
        /\ Len(selected) <= MinOf(max_articles, Len(articles))
        /\ \A j \in 1..Len(selected) : selected[j] \in 1..Len(articles)
        /\ Distinct(selected)

\* a scored call that filled the limit from a larger corpus
C1_Witness ==
    /\ rpc = "done" /\ ScoredCase
    /\ scored # <<>>
    /\ max_articles >= 2
    /\ Len(articles) > max_articles
    /\ Len(selected) = max_articles

\* the fused score of corpus position i, in tenths: 0.6 * semantic + 0.4 * lexical
Fused(i) == 6 * cosine_norm[i] + 4 * bm25_norm[i]

\* position i ranks before position j: a higher fused score, or the same
\* score and an earlier place in the corpus
RanksBefore(i, j) == Fused(i) > Fused(j) \/ (Fused(i) = Fused(j) /\ i < j)

\* C2: the returned list is the first k entries of the corpus ordered by
\* descending fused score, 0.6 * semantic_norm + 0.4 * lexical_norm, passages
\* of equal score in corpus order
C2_TopKByFusedScore ==
    (rpc = "done" /\ ScoredCase) =>
        /\ \A i \in 1..Len(articles) : scored[i] = <<Fused(i), i>>
        /\ Len(selected) = MinOf(max_articles, Len(articles))
        /\ \A a, b \in 1..Len(selected) :
             a < b => RanksBefore(selected[a], selected[b])
        /\ \A a \in 1..Len(selected) :
             \A i \in 1..Len(articles) :
                (\A b \in 1..Len(selected) : selected[b] # i)
                    => RanksBefore(selected[a], i)

\* a call over three passages that returned two: a passage of a later corpus
\* position and a higher score first, then the earlier of two passages of
\* equal score, leaving the later one out
C2_Witness ==
    /\ rpc = "done" /\ ScoredCase
    /\ Len(selected) = 2
    /\ Len(articles) = 3
    /\ Fused(selected[1]) > Fused(selected[2])
    /\ selected[1] > selected[2]
    /\ \E i \in 1..Len(articles) :
          /\ i > selected[2]
          /\ i # selected[1]
          /\ Fused(i) = Fused(selected[2])
    /\ bm25_norm[selected[1]] > 0

\* C3: with full-corpus mode on the selector returns the whole corpus in
\* corpus order, whatever the query and k, and makes no embedding call and
\* computes no score
C3_FullCorpusPassThrough ==
    use_full_artical =>
        /\ rpc \in {"start", "done"}
        /\ embed_calls = <<>>
        /\ query_embedding = <<>> /\ article_embeddings = <<>>
        /\ bm25_norm = <<>> /\ cosine_norm = <<>> /\ scored = <<>>
        /\ rpc = "done" =>
             /\ selected = Positions(articles)
             /\ Returned = articles

\* full-corpus mode returned a corpus larger than k for a non-blank query
C3_Witness ==
    /\ rpc = "done" /\ use_full_artical
    /\ ~BlankQuery
    /\ Len(articles) > max_articles
    /\ Len(selected) = Len(articles)

\* C4: with full-corpus mode off and an empty or whitespace-only query the
\* selector returns the first k passages in corpus order, and makes no
\* embedding call and computes no score
C4_BlankQueryFirstK ==
    (~use_full_artical /\ BlankQuery) =>
        /\ rpc \in {"start", "done"}
        /\ embed_calls = <<>>
        /\ query_embedding = <<>> /\ article_embeddings = <<>>
        /\ bm25_norm = <<>> /\ cosine_norm = <<>> /\ scored = <<>>
        /\ rpc = "done" =>
             /\ Len(selected) = MinOf(max_articles, Len(articles))
             /\ \A j \in 1..Len(selected) : selected[j] = j

\* a whitespace-only query returned the first k of a larger corpus
C4_Witness ==
    /\ rpc = "done" /\ ~use_full_artical
    /\ contract_text # <<>> /\ BlankQuery
    /\ max_articles >= 1
    /\ Len(articles) > max_articles
    /\ Len(selected) = max_articles


-----------------------------------------------------------------------------
(* Properties of the resilience layer *)

\* the text holds a '{' with a '}' somewhere after it
HasBracePair(s) ==
    \E i \in 1..Len(s) : \E j \in (i + 1)..Len(s) : s[i] = "{" /\ s[j] = "}"

\* the text parsed to an object whose summary is a string and risks a list
IsAuditObject(parsed) ==
    /\ parsed.st = "ok"
    /\ parsed.val.t = "dict"
    /\ DictGet(parsed.val, Summary).t = "str"
    /\ DictGet(parsed.val, Risks).t = "list"

\* C9: for every reply that holds a '{' followed later by a '}', ensure_json
\* then _normalize_json return without raising, and the text returned parses
\* to an object whose summary is a string and whose risks is a list.
C9_ResilienceNeverRaises ==
    HasBracePair(response_text) =>
        /\ jpc # "raised"
        /\ jpc = "normalized" => IsAuditObject(Parsed(normalized))

\* the part of C9 about the text returned, on its own
C9_OutputShape ==
    jpc = "normalized" => IsAuditObject(Parsed(normalized))

-----------------------------------------------------------------------------
(* Properties of the chunked run *)

SameValue(a, b) == a.t = b.t /\ a.v = b.v

\* C7: in every chunked run that completes, chunk_results of the final object
\* (as a reader of raw_json finds it) has one entry per chunk, entry i carries
\* chunk_index = i, chunk_total = the number of chunks and chunk_text = the
\* text of chunk i, whatever fields the replies carried.
C7_ChunkResultsInOrder ==
    (pc = "returned" /\ config.law_retrieval = 3) =>
        \E final \in {Parsed(result.raw_json)} :
            /\ final.st = "ok"
            /\ final.val.t = "dict"
            /\ \E entries \in {DictGet(final.val, ChunkResults)} :
                  /\ entries.t = "list"
                  /\ Len(entries.v) = Len(run_chunks)
                  /\ \A i \in 1..Len(entries.v) :
                        /\ entries.v[i].t = "dict"
                        /\ SameValue(DictGet(entries.v[i], ChunkIndex), JNum(i))
                        /\ SameValue(DictGet(entries.v[i], ChunkTotal),
                                     JNum(Len(run_chunks)))
                        /\ SameValue(DictGet(entries.v[i], ChunkText),
                                     JStr(run_chunks[i]))

\* a completed run of several chunks in which a reply carried its own
\* chunk_index and chunk_text
C7_Witness ==
    /\ pc = "returned"
    /\ config.law_retrieval = 3
    /\ Len(run_chunks) >= 2
    /\ \E i \in 1..Len(run_chunks) : calls[i].reply = ReplyOwnFields

\* C10: a reply without an opening brace followed by a closing one makes
\* ensure_json raise, and the run stops there: the call that got the reply is
\* the last one, no chunk after it is processed, no merge call follows and
\* no result is returned.
C10_NoObjectAbortsRun ==
    \A i \in 1..Len(calls) :
        (~calls[i].failed /\ ~HasBracePair(calls[i].reply)) =>
            /\ ensure_json(calls[i].reply).raised
            /\ i = Len(calls)
            /\ pc = "raised"
            /\ error = NoJsonObject
            /\ Len(results) = Len(calls) - 1
            /\ Len(chunk_results) = Len(calls) - 1
            /\ result = NoResult

\* a run aborted by such a reply at a chunk that is not the last one, after
\* a chunk was done
C10_Witness ==
    /\ pc = "raised"
    /\ error = NoJsonObject
    /\ Len(calls) >= 2
    /\ Len(calls) < Len(run_chunks)
    /\ ~HasBracePair(calls[Len(calls)].reply)


-----------------------------------------------------------------------------
(* Properties of the run: errors, calls and requests *)

\* C11: when the generation or the embedding collaborator raises in a chunk
\* step or in the merge step, the run ends with that very error, the failed
\* call is the last one issued, no result is returned (neither the results of
\* the chunks done nor the usage total), and once the run has raised no call
\* is added and nothing is returned.
C11_CollaboratorErrorPropagates ==
    /\ [](/\ \A i \in 1..Len(calls) :
                (calls[i].client_error # "" \/ calls[i].failed) =>
                    /\ i = Len(calls)
                    /\ pc = "raised"
                    /\ error = IF calls[i].client_error # ""
                               THEN calls[i].client_error ELSE EmptyResponse
                    /\ result = NoResult
          /\ error \in EmbedErrors =>
                /\ pc = "raised"
                /\ result = NoResult
                /\ Len(calls) = Len(results)
                /\ \A i \in 1..Len(calls) : ~calls[i].failed)
    /\ [][pc = "raised" =>
            UNCHANGED <<calls, embed_log, index_embeds, result, error, pc>>]_vars

\* the client raised at a chunk after another chunk was done, with results and
\* usage in hand
C11_Witness ==
    /\ pc = "raised"
    /\ config.law_retrieval = 3
    /\ Len(calls) >= 2
    /\ calls[Len(calls)].client_error \in ClientErrors
    /\ results # <<>>
    /\ run_usage # empty_token_usage
    /\ embed_log # <<>>

\* the strict reader refuses the candidate object of the reply
Malformed(reply) ==
    \/ ensure_json(reply).raised
    \/ json_loads(ensure_json(reply).text).st # "ok"

\* C12: a chunked run issues its generation calls in order, call i for chunk
\* i of total, then one merge call; a completed run has issued exactly
\* total + 1 calls, whether or not a reply was malformed.
C12_OneCallPerChunkThenMerge ==
    (pc \notin {"off", "load", "start"} /\ config.law_retrieval = 3) =>
        /\ \A i \in 1..Len(calls) :
              IF i <= Len(run_chunks)
              THEN /\ calls[i].request.kind = "chunk"
                   /\ calls[i].request.chunk_index = i
                   /\ calls[i].request.chunk_total = Len(run_chunks)
                   /\ calls[i].request.contract_text = run_chunks[i]
              ELSE /\ calls[i].request.kind = "merge"
                   /\ i = Len(run_chunks) + 1
        /\ pc = "returned" => Len(calls) = Len(run_chunks) + 1

\* a completed run of several chunks one of whose replies was malformed
C12_Witness ==
    /\ pc = "returned"
    /\ config.law_retrieval = 3
    /\ Len(run_chunks) >= 2
    /\ \E i \in 1..Len(run_chunks) : Malformed(calls[i].reply)

\* C13: the request for chunk i carries the normalized results of the chunks
\* 1..i-1, in order, joined by blank lines, and nothing else as previous
\* results (none for i = 1); the merge request carries those of all chunks.
C13_PreviousResultsInRequests ==
    (pc \notin {"off", "load", "start"} /\ config.law_retrieval = 3) =>
        /\ \A j \in 1..Len(results) : results[j] = absorb_reply(calls[j].reply).text
        /\ \A i \in 1..Len(calls) :
              IF calls[i].request.kind = "chunk"
              THEN /\ calls[i].request.previous_results =
                          JoinWith(<<"nl", "nl">>, SubSeq(results, 1, i - 1))
                   /\ i = 1 => calls[i].request.previous_results = <<>>
              ELSE /\ Len(results) = Len(run_chunks)
                   /\ calls[i].request.previous_results =
                          JoinWith(<<"nl", "nl">>, results)

\* a completed run of three chunks whose first two results differ
C13_Witness ==
    /\ pc = "returned"
    /\ config.law_retrieval = 3
    /\ Len(run_chunks) >= 3
    /\ results[1] # results[2]

\* the document holds nothing but whitespace
BlankDocument == \A i \in 1..Len(document) : document[i] \in {"sp", "nl"}

\* C14: run_audit called with an empty or whitespace-only document raises
\* "Contract text is empty" in every mode, with no embedding and no
\* generation call made and nothing returned; the chunker returns no chunk
\* for such a document.
C14_EmptyDocumentRaises ==
    (pc \notin {"off", "load"} /\ BlankDocument) =>
        /\ pc \in {"start", "raised"}
        /\ (pc = "raised" /\ entry = "direct") => error = EmptyDocument
        /\ (pc = "raised" /\ entry = "loader") =>
              error \in {EmptyDocument, NoLegalArticles} \cup EmbedErrors
        /\ calls = <<>>
        /\ embed_log = <<>>
        /\ result = NoResult
        /\ chunk_contract_text(document, config.contract_max_chars) = <<>>

\* a whitespace-only document refused in a non-chunked mode
C14_Witness ==
    /\ pc = "raised"
    /\ error = EmptyDocument
    /\ document # <<>>
    /\ BlankDocument
    /\ config.law_retrieval # 3
    /\ legal_articles # <<>>

\* C15 as stated: a run started with an empty corpus is aborted and makes no
\* generation call.
C15_EmptyCorpusAbortsRun ==
    (pc # "off" /\ legal_articles = <<>>) =>
        /\ pc \in {"load", "start", "raised"}
        /\ calls = <<>>

\* C15, amended: the loader of the entry points refuses a workspace without
\* passages, before run_audit is called: no embedding request, no generation
\* call, no result; run_audit itself never raises for an empty corpus.
C15_LoaderRefusesEmptyCorpus ==
    /\ (entry = "loader" /\ legal_articles = <<>>) =>
          /\ pc \in {"load", "raised"}
          /\ pc = "raised" => error = NoLegalArticles
          /\ calls = <<>>
          /\ embed_log = <<>>
          /\ index_embeds = <<>>
          /\ result = NoResult
    /\ error = NoLegalArticles =>
          /\ entry = "loader"
          /\ legal_articles = <<>>
          /\ pc = "raised"

\* the loader refused an empty workspace for a document that could be audited
C15_Witness ==
    /\ entry = "loader"
    /\ legal_articles = <<>>
    /\ pc = "raised"
    /\ error = NoLegalArticles
    /\ ~BlankDocument

\* C16: a non-chunked run issues one generation call; its prompt carries the
\* whole document, not cut to contract_max_chars, and the text of the
\* passages the selector returned: all of the corpus in full-corpus mode, at
\* most max_articles distinct ones otherwise.
C16_SingleCallWholeDocument ==
    (pc \notin {"off", "load", "start"} /\ config.law_retrieval # 3) =>
        /\ Len(calls) <= 1
        /\ pc = "returned" => Len(calls) = 1
        /\ \A i \in 1..Len(calls) :
              /\ calls[i].request.kind = "whole"
              /\ calls[i].request.contract_text = document
              /\ calls[i].request.legal_context =
                    format_legal_context(legal_articles, run_selected)
              /\ config.use_full_artical =>
                    run_selected = Positions(legal_articles)
              /\ ~config.use_full_artical =>
                    /\ Len(run_selected) <= config.max_articles
                    /\ \A a, b \in 1..Len(run_selected) :
                          a # b => run_selected[a] # run_selected[b]
                    /\ \A a \in 1..Len(run_selected) :
                          run_selected[a] \in 1..Len(legal_articles)

\* a completed run in retrieval mode on a document longer than
\* contract_max_chars, with one passage of two selected
C16_Witness ==
    /\ pc = "returned"
    /\ config.law_retrieval = 2
    /\ Len(document) > config.contract_max_chars
    /\ Len(legal_articles) = 2
    /\ Len(run_selected) = 1
    /\ Len(calls) = 1


-----------------------------------------------------------------------------
(* Properties of the workspace guard *)

\* the resolved target is the resolved workspace or lies below it
Inside(target, workspace) ==
    /\ Len(workspace) <= Len(target)
    /\ \A i \in 1..Len(workspace) : target[i] = workspace[i]

\* C17: read_legal_file returns content only for a path that resolves inside
\* the resolved workspace; for a path that resolves outside it raises
\* PermissionError and hands nothing to the reader.
C17_ReadOnlyInsideWorkspace ==
    fpc = "done" =>
        /\ read_result.kind = "content" =>
              /\ Inside(resolve(file_path, cwd), resolve(workspace_dir, cwd))
              /\ read_result.text_of = resolve(file_path, cwd)
        /\ ~Inside(resolve(file_path, cwd), resolve(workspace_dir, cwd)) =>
              /\ read_result.kind = "PermissionError"
              /\ reads = <<>>

\* a path that starts in the workspace and leaves it through a symbolic
\* link is refused
C17_Witness ==
    /\ fpc = "done"
    /\ read_result.kind = "PermissionError"
    /\ file_path.abs
    /\ file_path.comps = <<Ws, Link, LawFile>>
    /\ workspace_dir.comps = <<Ws>>

-----------------------------------------------------------------------------
(* Properties of runs side by side *)

\* C18: runs that proceed in parallel share no mutable state, so that every
\* run ends as it would alone: it raises no error of the index file, it loads
\* the passages of the workspace, and the memory it reads is one the memory
\* file was given as a whole.
C18_RunsShareNoMutableState ==
    \A p \in Runs :
        /\ procs[p].pc # "raised"
        /\ procs[p].pc \in {"memory", "done"} => procs[p].articles = Corpus
        /\ procs[p].pc = "done" => procs[p].memory \in {InitialMemory, UpdatedMemory}

-----------------------------------------------------------------------------
(* Properties of the defaults of the normalized object *)

\* the object _normalize_json starts from: what the candidate text loads to
LoadedReply == as_dict(safe_load_json(json_text).val)

\* the object a reader of the normalized text finds
NormalizedObject == Parsed(normalized).val

\* the normalized object carries a non-empty summary
SummaryRecovered == DictGet(NormalizedObject, Summary).v # <<>>

\* the reply had a risks member that is a list
RisksSupplied == DictHas(LoadedReply, Risks) /\ DictGet(LoadedReply, Risks).t = "list"

\* the normalized object holds the candidate text under raw_text
HoldsCandidateText ==
    /\ DictHas(NormalizedObject, RawText)
    /\ SameValue(DictGet(NormalizedObject, RawText), JStr(json_text))

\* a raw_text field was added: the reply had none and the result has one
RawTextAdded == ~DictHas(LoadedReply, RawText) /\ DictHas(NormalizedObject, RawText)

\* C20 as stated: the normalized object carries raw_text holding the
\* candidate text exactly when no non-empty summary was recovered and the
\* reply supplied no risks list; with a non-empty summary or a supplied risks
\* list no raw_text is added.
C20_RawTextWhenNoSummaryNoRisks ==
    jpc = "normalized" =>
        /\ HoldsCandidateText <=> (~SummaryRecovered /\ ~RisksSupplied)
        /\ (SummaryRecovered \/ RisksSupplied) => ~RawTextAdded

\* C20 as the code has it: a raw_text field holding the candidate text is
\* added exactly when the reply had no raw_text member of its own and no
\* non-empty summary was recovered, whether or not the reply supplied a risks
\* list; a raw_text member of the reply is kept as it was.
C20_RawTextWhenNoSummary ==
    jpc = "normalized" =>
        /\ RawTextAdded <=> (~DictHas(LoadedReply, RawText) /\ ~SummaryRecovered)
        /\ RawTextAdded => HoldsCandidateText
        /\ DictHas(LoadedReply, RawText) =>
              SameValue(DictGet(NormalizedObject, RawText),
                        DictGet(LoadedReply, RawText))

\* a reply that supplied a risks list and no summary got the candidate text
\* under raw_text
C20_Witness ==
    /\ jpc = "normalized"
    /\ RisksSupplied
    /\ ~SummaryRecovered
    /\ RawTextAdded
    /\ HoldsCandidateText

-----------------------------------------------------------------------------
(* Properties of the selector invoked twice *)

\* the collaborator gave the first invocation, for every text it was asked
\* about, the vector it gave the second one
SameVectors == same_vectors(again.answers)

-----------------------------------------------------------------------------
(* Properties of the fields the normalization passes through *)

\* the candidate text loaded to an object (as it is or after the repair)
LoadedIsObject == safe_load_json(json_text).val.t = "dict"

\* the field has in the normalized object the value the reply gave it
PassedThrough(key) ==
    /\ DictHas(NormalizedObject, key)
    /\ SameValue(DictGet(NormalizedObject, key), DictGet(LoadedReply, key))

\* C21: when the candidate text parses to an object, every field of it other
\* than summary and risks is in the normalized output with its value
\* unchanged, and so are a summary that is a string and a risks that is a
\* list.
C21_OtherFieldsPassThrough ==
    (jpc = "normalized" /\ LoadedIsObject) =>
        /\ Parsed(normalized).st = "ok"
        /\ NormalizedObject.t = "dict"
        /\ \A i \in 1..Len(LoadedReply.v) :
              LoadedReply.v[i].k \notin {Summary, Risks} =>
                  PassedThrough(LoadedReply.v[i].k)
        /\ DictGet(LoadedReply, Summary).t = "str" => PassedThrough(Summary)
        /\ DictGet(LoadedReply, Risks).t = "list" => PassedThrough(Risks)

\* a reply with a field of its own beside a risks list that is not empty
C21_Witness ==
    /\ jpc = "normalized"
    /\ LoadedIsObject
    /\ DictHas(LoadedReply, <<"x">>)
    /\ DictGet(LoadedReply, Risks).t = "list"
    /\ DictGet(LoadedReply, Risks).v # <<>>
    /\ PassedThrough(<<"x">>)
    /\ PassedThrough(Risks)

-----------------------------------------------------------------------------
(* Properties of the usage accumulator: odd deltas *)

\* C22: _merge_token_usage never raises; a delta field that is absent, null
\* or no number adds 0 to its total, and the other three totals get their
\* own fields.
C22_MergeNeverRaises ==
    /\ upc # "raised"
    /\ \A i \in 1..Len(UsageFields) :
          total_usage[UsageFields[i]] = SumField(merged, UsageFields[i])

-----------------------------------------------------------------------------
(* Properties of the usage total of a run *)

\* the delta _extract_usage built from the response that carried the reply
UsageOfReply(reply) == (CHOOSE g \in GenOutcomes : g.reply = reply).usage

\* the deltas of the calls of the run, in order
CallDeltas == [i \in 1..Len(calls) |-> UsageOfReply(calls[i].reply)]

\* no field of the usage total is smaller after the step than before it
UsageDoesNotDecrease ==
    pc # "off" =>
        \A i \in 1..Len(UsageFields) :
            run_usage'[UsageFields[i]] >= run_usage[UsageFields[i]]

\* C23: across the generation calls of a run no field of the usage total
\* decreases; every delta _extract_usage produced has prompt_uncached =
\* max(prompt_total - prompt_cached, 0); and the total a completed chunked
\* run returns is, field by field, the sum of the deltas of its total + 1
\* calls.
C23_UsageTotalIsSumOfDeltas ==
    /\ [](\A i \in 1..Len(calls) :
            (~calls[i].failed /\ calls[i].reply # <<>>) =>
                IntOrZero(CallDeltas[i].prompt_uncached)
                = MaxOf(IntOrZero(CallDeltas[i].prompt_total)
                        - IntOrZero(CallDeltas[i].prompt_cached), 0))
    /\ []((pc = "returned" /\ config.law_retrieval = 3) =>
            /\ Len(calls) = Len(run_chunks) + 1
            /\ result.token_usage = run_usage
            /\ \A i \in 1..Len(UsageFields) :
                  result.token_usage[UsageFields[i]]
                  = SumField(CallDeltas, UsageFields[i]))
    /\ [][UsageDoesNotDecrease]_vars

\* a chunked run of several chunks completed, one of its responses reporting
\* more cached prompt tokens than prompt tokens
C23_Witness ==
    /\ pc = "returned"
    /\ config.law_retrieval = 3
    /\ Len(run_chunks) >= 2
    /\ \E i \in 1..Len(calls) :
          /\ calls[i].reply = ReplyOwnFields
          /\ IntOrZero(CallDeltas[i].prompt_cached)
             > IntOrZero(CallDeltas[i].prompt_total)
    /\ \E i \in 1..Len(calls) : calls[i].reply = ReplyGood
    /\ result.token_usage.prompt_total > 0

-----------------------------------------------------------------------------
(* Properties of the embeddings the selector resolves *)

\* the rank of corpus position i among the passages without a stored embedding
RankAmongMissing(i) == Cardinality({j \in 1..i : articles[j].embedding = <<>>})

\* the contents of the passages without a stored embedding, in corpus order
RECURSIVE ContentsOfMissing(_)
ContentsOfMissing(arts) ==
    IF arts = <<>> THEN <<>>
    ELSE (IF Head(arts).embedding = <<>> THEN <<Head(arts).content>> ELSE <<>>)
         \o ContentsOfMissing(Tail(arts))

\* C24: _get_article_embeddings returns one entry per passage: the stored
\* embedding of a passage that has one, else the j-th vector of the one batch
\* requested for exactly the passages without one, j the rank of the passage
\* among them; no batch is requested when every passage has one.  The query
\* embedding is requested once in every scoring call, the second call
\* included.
C24_EmbeddingsResolvedInOrder ==
    /\ (rpc \in {"embedded", "done"} /\ Scoring) =>
          /\ Len(article_embeddings) = Len(articles)
          /\ embed_calls[1] = <<contract_text>>
          /\ query_embedding = embed_answers[1][1]
          /\ \A n \in 2..Len(embed_calls) : embed_calls[n] # <<contract_text>>
          /\ IF \A i \in 1..Len(articles) : articles[i].embedding # <<>>
             THEN /\ Len(embed_calls) = 1
                  /\ \A i \in 1..Len(articles) :
                        article_embeddings[i] = articles[i].embedding
             ELSE /\ Len(embed_calls) = 2
                  /\ embed_calls[2] = ContentsOfMissing(articles)
                  /\ Len(embed_answers[2]) = Len(embed_calls[2])
                  /\ \A i \in 1..Len(articles) :
                        article_embeddings[i] =
                            IF articles[i].embedding # <<>>
                            THEN articles[i].embedding
                            ELSE embed_answers[2][RankAmongMissing(i)]
    /\ (rpc = "done" /\ ~Scoring) => embed_calls = <<>>
    /\ (again # <<>> /\ again.pc = "done" /\ Scoring) =>
          /\ again.embed_calls # <<>>
          /\ again.embed_calls[1] = <<contract_text>>
          /\ again.embed_calls = embed_calls

\* a corpus of three passages, the middle one with a stored embedding, the
\* two others answered with different vectors, scored twice
C24_Witness ==
    /\ rpc = "done" /\ Scoring
    /\ again # <<>> /\ again.pc = "done"
    /\ Len(articles) = 3
    /\ articles[1].embedding = <<>>
    /\ articles[2].embedding # <<>>
    /\ articles[3].embedding = <<>>
    /\ Len(embed_calls) = 2
    /\ embed_answers[2][1] # embed_answers[2][2]
    /\ article_embeddings = <<embed_answers[2][1], articles[2].embedding,
                              embed_answers[2][2]>>

-----------------------------------------------------------------------------
(* Properties of the scorers on degenerate input *)

ZeroNorm(v) == \A i \in 1..Len(v) : v[i] = 0

\* the scored list retrieve_top_articles sorts, for the input in hand
DegenerateScored ==
    scored_list(
        cosine_norms(scoring.qe,
                     resolve_embeddings(scoring.articles,
                         GeneratedFor(scoring.articles, scoring.generated))),
        normalize_scores(bm25_scores(scoring.query, scoring.articles)))

\* C25: _bm25_score returns 0 when the document length, the average length
\* or the corpus size is 0; _cosine_similarity_vector returns 0 when a vector
\* is empty, the lengths differ or a norm is 0; and retrieve_top_articles
\* returns on such input the passages of the corpus ranked by fused score,
\* equal scores in corpus order.
C25_DegenerateScoresAreZero ==
    (scoring # <<>> /\ scoring.pc = "done") =>
        /\ (scoring.fn = "bm25"
            /\ (scoring.args[1] = 0 \/ scoring.args[2] = 0 \/ scoring.args[3] = 0))
           => scoring.out = <<0>>
        /\ (scoring.fn = "cosine"
            /\ (\/ scoring.args[1] = <<>>
                \/ scoring.args[2] = <<>>
                \/ Len(scoring.args[1]) # Len(scoring.args[2])
                \/ ZeroNorm(scoring.args[1])
                \/ ZeroNorm(scoring.args[2])))
           => scoring.out = <<0>>
        /\ scoring.fn = "retrieve" =>
              /\ Len(scoring.out) = MinOf(MaxDegenerate, Len(scoring.articles))
              /\ \A a \in 1..Len(scoring.out) :
                    scoring.out[a] \in 1..Len(scoring.articles)
              /\ \A a, b \in 1..Len(scoring.out) :
                    a < b =>
                        \/ DegenerateScored[scoring.out[a]][1]
                           > DegenerateScored[scoring.out[b]][1]
                        \/ /\ DegenerateScored[scoring.out[a]][1]
                              = DegenerateScored[scoring.out[b]][1]
                           /\ scoring.out[a] < scoring.out[b]

\* a corpus of a passage without a token and a passage whose vector has one
\* component, ranked for a query whose vector is zero
C25_Witness ==
    /\ scoring # <<>>
    /\ scoring.pc = "done"
    /\ scoring.fn = "retrieve"
    /\ scoring.qe = <<0, 0>>
    /\ Len(scoring.articles) = 2
    /\ scoring.articles[1].content = <<".">>
    /\ scoring.articles[2].embedding = <<1>>
    /\ scoring.generated = <<>>
    /\ Len(scoring.out) = 2


-----------------------------------------------------------------------------
(* The vector index over a sequence of loads (cli.py, _load_legal_articles). *)
(* Between two loads the legal workspace may be edited, the embedding        *)
(* configuration may change and the index file may be lost or damaged.  A    *)
(* step is one whole load or one change of the surroundings.                 *)

MaxLoads == 3
\* cli.py:205: batch_size, 64 in the program
BatchSize == 2

\* legal workspaces: the files with their stat fields, and the contents of
\* the passages parsed from them (cli.py:58-68)
LegalWorkspaces ==
    { [files |-> <<[path |-> "a.md", mtime_ns |-> 1, size |-> 3]>>,
       passages |-> <<"x", "y", "z">>],
      [files |-> <<[path |-> "a.md", mtime_ns |-> 2, size |-> 3]>>,
       passages |-> <<"x", "w", "z">>],
      [files |-> <<[path |-> "a.md", mtime_ns |-> 2, size |-> 3],
                   [path |-> "b.md", mtime_ns |-> 1, size |-> 1]>>,
       passages |-> <<"x", "w", "z", "v">>] }

\* config.embedding_model and config.embedding_base ("None": no base given)
EmbeddingConfigs ==
    { [embedding_model |-> "m1", embedding_base |-> "None"],
      [embedding_model |-> "m1", embedding_base |-> ""],
      [embedding_model |-> "m1", embedding_base |-> "b"],
      [embedding_model |-> "m2", embedding_base |-> "None"] }

\* cli.py:162-179
compute_legal_snapshot(workspace, cfg) ==
    [files |-> workspace.files,
     embedding_model |-> cfg.embedding_model,
     embedding_base |-> IF cfg.embedding_base = "None" THEN ""
                        ELSE cfg.embedding_base]

\* what is at <workspace>/.legal_articles.sqlite: nothing; something that
\* sqlite3.connect cannot open (a directory, a file the process may not
\* read); a file that is no database; a database holding the snapshot row
\* and the rows of the passages
NoIndexFile == [kind |-> "missing", snapshot |-> <<>>, rows |-> <<>>]
UnopenableIndex == [kind |-> "unopenable", snapshot |-> <<>>, rows |-> <<>>]
NotADatabase == [kind |-> "garbage", snapshot |-> <<>>, rows |-> <<>>]

CannotOpen == "OperationalError: unable to open database file"
EmbedFailed == "embedding request failed"

\* cli.py:182-198: a file that is no database, or has no snapshot row,
\* makes the SELECT raise inside the try, which answers False
sqlite_current(db, snapshot) ==
    /\ db.kind = "index"
    /\ db.snapshot = snapshot

\* cli.py:201-216: the contents, batch_size at a time
RECURSIVE embed_articles_batches(_)
embed_articles_batches(texts) ==
    IF texts = <<>> THEN <<>>
    ELSE <<SubSeq(texts, 1, MinOf(BatchSize, Len(texts)))>>
         \o embed_articles_batches(SubSeq(texts, MinOf(BatchSize, Len(texts)) + 1,
                                 Len(texts)))

\* the vectors the service answers a batch with; v stands for what the
\* service computes at the time of the request
embed_answer(batch, v) == [j \in 1..Len(batch) |-> <<batch[j], v>>]

RECURSIVE Flatten(_)
Flatten(seqs) ==
    IF seqs = <<>> THEN <<>> ELSE Head(seqs) \o Flatten(Tail(seqs))

\* cli.py:108-132: zip(articles, embeddings), inserted in that order
index_rows_swapped(passages, embeddings) ==
    [i \in 1..MinOf(Len(passages), Len(embeddings)) |->
        [content |-> passages[i],
         embedding |-> embeddings[MinOf(Len(passages), Len(embeddings)) + 1 - i]]]
index_rows(passages, embeddings) ==
    [i \in 1..MinOf(Len(passages), Len(embeddings)) |->
        [content |-> passages[i], embedding |-> embeddings[i]]]

\* cli.py:71-135
write_articles_to_sqlite(passages, snapshot, v) ==
    [kind |-> "index",
     snapshot |-> snapshot,
     rows |-> index_rows(passages,
                  Flatten([b \in 1..Len(embed_articles_batches(passages)) |->
                              embed_answer(embed_articles_batches(passages)[b], v)]))]

NoLoad ==
    [found |-> NoIndexFile, snapshot |-> <<>>, passages |-> <<>>,
     embeds |-> <<>>,
     wrote |-> FALSE, returned |-> <<>>, error |-> ""]

IndexInit ==
    /\ FilterOff
    /\ ConfigOff
    /\ MemoryOff
    /\ ChunkOff
    /\ UsageOff
    /\ RetrievalOff
    /\ JsonOff
    /\ RunOff
    /\ FileOff
    /\ SharedOff
    /\ AgainOff
    /\ ScoringOff
    /\ \E workspace \in LegalWorkspaces, cfg \in EmbeddingConfigs :
          vector_index = [workspace |-> workspace, cfg |-> cfg,
                          db |-> NoIndexFile, loads |-> 0, changes |-> 0,
                          last |-> NoLoad]

Snapshot_now == compute_legal_snapshot(vector_index.workspace, vector_index.cfg)

\* cli.py:51-55: the index is current; it is read, no vector is requested
LoadFromIndex ==
    /\ vector_index.loads < MaxLoads
    /\ vector_index.db.kind # "unopenable"
    /\ sqlite_current(vector_index.db, Snapshot_now)
    /\ vector_index' =
          [vector_index EXCEPT
              !.loads = @ + 1,
              !.last = [found |-> vector_index.db, snapshot |-> Snapshot_now,
                        passages |-> vector_index.workspace.passages,
                        embeds |-> <<>>, wrote |-> FALSE,
                        returned |-> vector_index.db.rows, error |-> ""]]
    /\ IndexFrame

\* cli.py:51-55, 71-135: the index is missing, no database or holds another
\* snapshot; the file is removed, the passages are embedded and written with
\* the snapshot, and the rows are read back
LoadRewrites ==
    /\ vector_index.loads < MaxLoads
    /\ vector_index.db.kind # "unopenable"
    /\ ~sqlite_current(vector_index.db, Snapshot_now)
    /\ \E v \in 1..2 :
          vector_index' =
              [vector_index EXCEPT
                  !.loads = @ + 1,
                  !.db = write_articles_to_sqlite(
                             vector_index.workspace.passages, Snapshot_now, v),
                  !.last = [found |-> vector_index.db,
                            snapshot |-> Snapshot_now,
                            passages |-> vector_index.workspace.passages,
                            embeds |-> embed_articles_batches(
                                           vector_index.workspace.passages),
                            wrote |-> TRUE,
                            returned |-> write_articles_to_sqlite(
                                vector_index.workspace.passages,
                                Snapshot_now, v).rows,
                            error |-> ""]]
    /\ IndexFrame

\* cli.py:77-83: the file is removed, then a request for vectors raises out
\* of the load after b - 1 batches were answered
LoadEmbeddingRaises ==
    /\ vector_index.loads < MaxLoads
    /\ vector_index.db.kind # "unopenable"
    /\ ~sqlite_current(vector_index.db, Snapshot_now)
    /\ \E b \in 1..Len(embed_articles_batches(vector_index.workspace.passages)) :
          vector_index' =
              [vector_index EXCEPT
                  !.loads = @ + 1,
                  !.db = NoIndexFile,
                  !.last = [found |-> vector_index.db,
                            snapshot |-> Snapshot_now,
                            passages |-> vector_index.workspace.passages,
                            embeds |-> SubSeq(embed_articles_batches(
                                vector_index.workspace.passages), 1, b),
                            wrote |-> FALSE,
                            returned |-> <<>>,
                            error |-> EmbedFailed]]
    /\ IndexFrame

\* cli.py:183-185: the path exists and sqlite3.connect, which stands before
\* the try, raises; nothing is embedded, nothing written
LoadCannotOpen ==
    /\ vector_index.loads < MaxLoads
    /\ vector_index.db.kind = "unopenable"
    /\ vector_index' =
          [vector_index EXCEPT
              !.loads = @ + 1,
              !.last = [found |-> vector_index.db, snapshot |-> Snapshot_now,
                        passages |-> vector_index.workspace.passages,
                        embeds |-> <<>>, wrote |-> FALSE,
                        returned |-> <<>>, error |-> CannotOpen]]
    /\ IndexFrame

\* a file of the workspace is edited or added
WorkspaceChanges ==
    /\ vector_index.changes < MaxLoads
    /\ \E workspace \in LegalWorkspaces \ {vector_index.workspace} :
          vector_index' = [vector_index EXCEPT !.workspace = workspace,
                                               !.changes = @ + 1]
    /\ IndexFrame

\* EMBEDDING_MODEL or EMBEDDING_BASE differs at the next start
ConfigChanges ==
    /\ vector_index.changes < MaxLoads
    /\ \E cfg \in EmbeddingConfigs \ {vector_index.cfg} :
          vector_index' = [vector_index EXCEPT !.cfg = cfg,
                                               !.changes = @ + 1]
    /\ IndexFrame

\* the index file is removed, overwritten, or replaced by something that
\* cannot be opened
IndexDamaged ==
    /\ vector_index.changes < MaxLoads
    /\ \E db \in {NoIndexFile, UnopenableIndex, NotADatabase} \ {vector_index.db} :
          vector_index' = [vector_index EXCEPT !.db = db, !.changes = @ + 1]
    /\ IndexFrame

IndexNext ==
    \/ LoadFromIndex
    \/ LoadRewrites
    \/ LoadEmbeddingRaises
    \/ LoadCannotOpen
    \/ WorkspaceChanges
    \/ ConfigChanges
    \/ IndexDamaged

SpecIndex == IndexInit /\ [][IndexNext]_vars

Loaded == vector_index # <<>> /\ vector_index.loads > 0

\* the stored snapshot the load found differs from the current one or cannot
\* be read
FoundStale ==
    \/ vector_index.last.found.kind # "index"
    \/ vector_index.last.found.snapshot # vector_index.last.snapshot

\* the passages returned carry their vectors, in the order of the corpus
ReturnedInOrder ==
    /\ Len(vector_index.last.returned) = Len(vector_index.last.passages)
    /\ \A i \in 1..Len(vector_index.last.returned) :
          /\ vector_index.last.returned[i].content
             = vector_index.last.passages[i]
          /\ vector_index.last.returned[i].embedding # <<>>
          /\ vector_index.last.returned[i].embedding[1]
             = vector_index.last.passages[i]

\* C26: a load re-embeds the corpus and rewrites the index exactly when the
\* stored snapshot differs from the current one or cannot be read; with an
\* unchanged snapshot it requests no vector; in both cases it returns the
\* passages with their vectors in the order written.  (A request for vectors
\* that fails is outside the statement.)
C26_RewriteExactlyWhenStale ==
    (Loaded /\ vector_index.last.error # EmbedFailed) =>
        /\ vector_index.last.wrote <=> FoundStale
        /\ vector_index.last.embeds # <<>> <=> FoundStale
        /\ vector_index.last.error = ""
        /\ ReturnedInOrder

\* the same for every load that found a path sqlite3.connect can open
RewriteExactlyWhenStaleAndOpenable ==
    (/\ Loaded
     /\ vector_index.last.error # EmbedFailed
     /\ vector_index.last.found.kind # "unopenable") =>
        /\ vector_index.last.wrote <=> FoundStale
        /\ vector_index.last.embeds # <<>> <=> FoundStale
        /\ vector_index.last.error = ""
        /\ ReturnedInOrder

\* a load finds an index whose snapshot is the current one although the base
\* changed from none to the empty string, and requests nothing
UnchangedSnapshotLoad ==
    /\ Loaded
    /\ vector_index.loads = 2
    /\ ~FoundStale
    /\ vector_index.last.embeds = <<>>
    /\ Len(vector_index.last.returned) = 4


-----------------------------------------------------------------------------
(* The memory over a sequence of feedback updates (memory_update.py,         *)
(* update_memory_from_feedback).  A step is one whole update: the memory is  *)
(* read, the collaborator is asked for a summary and, when the memory has    *)
(* reached memory_len, for a compressed memory, and the file is rewritten.   *)
(* Texts are sequences of characters; the collaborator answers any text.     *)

MaxUpdates == 3
MaxReply == 3
\* config.memory_len (at least 200 in the program, config.py)
MemoryLen == 2

\* memory_update.py:67-71
SummaryCap == 200
SummaryFloor == 50
SeparatorLen == 2

MemoryChars == {"a", "sp"}
MemoryReplies == SeqsUpTo(MemoryChars, MaxReply)

\* str.rstrip()
RStrip(s) ==
    LET keep == {i \in 1..Len(s) : ~IsSpace(s[i])}
    IN IF keep = {} THEN <<>> ELSE SubSeq(s, 1, Max(keep))

\* memory_update.py:45-50
truncate_text_keep(t, max_len) == t
truncate_text(t, max_len) ==
    IF max_len <= 0 THEN <<>>
    ELSE IF Len(t) <= max_len THEN t
    ELSE RStrip(SliceTo(t, max_len))

\* memory_update.py:63-71
summary_max_len(memory, limit) ==
    IF limit <= 0 THEN 0
    ELSE IF memory = <<>> THEN MinOf(SummaryCap, limit)
    ELSE IF limit - Len(Strip(memory)) - SeparatorLen <= 0 THEN SummaryFloor
    ELSE MinOf(SummaryCap, limit - Len(Strip(memory)) - SeparatorLen)

\* memory_update.py:104: the reply of the summary request, stripped
summarize_feedback(reply) == Strip(reply)

\* memory_update.py:119-126
compress_memory(reply) == Strip(truncate_text(Strip(reply), MemoryLen))

\* prompt.py:8-12
load_memory(file) == Strip(file)

NoUpdate ==
    [read |-> <<>>, max_len |-> 0, new_summary |-> <<>>, branch |-> "",
     compressed |-> <<>>, stored |-> <<>>, error |-> ""]

MemoryInit ==
    /\ FilterOff
    /\ ConfigOff
    /\ ChunkOff
    /\ UsageOff
    /\ RetrievalOff
    /\ JsonOff
    /\ RunOff
    /\ FileOff
    /\ SharedOff
    /\ AgainOff
    /\ ScoringOff
    /\ IndexOff
    /\ \E file \in {<<>>, <<"a">>, <<"a", "a", "nl">>} :
          feedback_memory = [file |-> file, updates |-> 0, last |-> NoUpdate]

\* memory_update.py:16-32, 39-42: the memory read is shorter than memory_len;
\* the summary is appended and the result stored as it is
UpdateAppends ==
    /\ feedback_memory.updates < MaxUpdates
    /\ Len(load_memory(feedback_memory.file)) < MemoryLen
    /\ \E reply \in MemoryReplies :
          With(Strip(append_memory(load_memory(feedback_memory.file),
                                   summarize_feedback(reply))),
               LAMBDA updated_memory :
                 feedback_memory' =
                     [file |-> updated_memory,
                      updates |-> feedback_memory.updates + 1,
                      last |-> [read |-> load_memory(feedback_memory.file),
                                max_len |-> summary_max_len(
                                    load_memory(feedback_memory.file), MemoryLen),
                                new_summary |-> summarize_feedback(reply),
                                branch |-> "append",
                                compressed |-> <<>>,
                                stored |-> updated_memory,
                                error |-> ""]])
    /\ MemoryFrame

\* memory_update.py:16-30, 33-42: the memory read has reached memory_len; the
\* collaborator is asked to compress the appended memory and its reply is
\* cut to memory_len
UpdateCompresses ==
    /\ feedback_memory.updates < MaxUpdates
    /\ Len(load_memory(feedback_memory.file)) >= MemoryLen
    /\ \E reply \in MemoryReplies, compressed \in MemoryReplies :
          feedback_memory' =
              [file |-> compress_memory(compressed),
               updates |-> feedback_memory.updates + 1,
               last |-> [read |-> load_memory(feedback_memory.file),
                         max_len |-> summary_max_len(
                             load_memory(feedback_memory.file), MemoryLen),
                         new_summary |-> summarize_feedback(reply),
                         branch |-> "compress",
                         compressed |-> Strip(compressed),
                         stored |-> compress_memory(compressed),
                         error |-> ""]]
    /\ MemoryFrame

\* memory_update.py:22-29, 34-38: a request raises; the file is not written
UpdateRaises ==
    /\ feedback_memory.updates < MaxUpdates
    /\ feedback_memory' =
          [feedback_memory EXCEPT
              !.updates = @ + 1,
              !.last = [read |-> load_memory(feedback_memory.file),
                        max_len |-> summary_max_len(
                            load_memory(feedback_memory.file), MemoryLen),
                        new_summary |-> <<>>,
                        branch |-> "",
                        compressed |-> <<>>,
                        stored |-> <<>>,
                        error |-> "request failed"]]
    /\ MemoryFrame

MemoryNext ==
    \/ UpdateAppends
    \/ UpdateCompresses
    \/ UpdateRaises

SpecMemory == MemoryInit /\ [][MemoryNext]_vars

Updated ==
    /\ feedback_memory # <<>>
    /\ feedback_memory.updates > 0
    /\ feedback_memory.last.error = ""

\* C27, as stated: from the second update on the stored memory is never
\* longer than memory_len.
C27_WithinLimitAfterTwoUpdates ==
    (Updated /\ feedback_memory.updates >= 2) =>
        Len(feedback_memory.last.stored) <= MemoryLen

\* C27: an update that reads a memory of length >= memory_len stores a memory
\* of length <= memory_len, so the stored memory is never longer than
\* memory_len after both of two consecutive updates; an update that reads a
\* shorter memory stores the memory with the whole new summary appended,
\* whatever its length.
C27_CompressBoundsAppendDoesNot ==
    Updated =>
        /\ Len(feedback_memory.last.read) >= MemoryLen
           => /\ feedback_memory.last.branch = "compress"
              /\ Len(feedback_memory.last.stored) <= MemoryLen
        /\ Len(feedback_memory.last.read) < MemoryLen
           => /\ feedback_memory.last.branch = "append"
              /\ feedback_memory.last.stored
                 = Strip(append_memory(feedback_memory.last.read,
                                       feedback_memory.last.new_summary))
              /\ Len(feedback_memory.last.stored)
                 >= Len(feedback_memory.last.new_summary)
        /\ feedback_memory.file = feedback_memory.last.stored

\* the second update reads a memory that an append left longer than
\* memory_len and stores a compressed memory cut to memory_len
C27_Witness ==
    /\ Updated
    /\ feedback_memory.updates = 2
    /\ feedback_memory.last.branch = "compress"
    /\ Len(feedback_memory.last.read) > MemoryLen
    /\ Len(feedback_memory.last.compressed) > MemoryLen
    /\ Len(feedback_memory.last.stored) = MemoryLen


-----------------------------------------------------------------------------
(* The configuration built from the environment (config.py,                  *)
(* AppConfig.from_env).  The environment gives each variable a text or       *)
(* nothing; the .env file gives texts to variables the environment does not  *)
(* hold.  The fields modelled are the ones from_env computes; the others     *)
(* (keys, base URLs, model names) are copies of their variables.             *)

\* config.py:63, 66, 70, 73
DefaultMemoryLen == 1200
MinMemoryLen == 200
DefaultContractMaxChars == 20000
MinContractMaxChars == 200

EnvNames == {"LAW_RETRIEVAL", "USE_FULL_ARTICAL", "MEMORY_LEN", "CONTRACT_MAX_CHARS"}

Unset == [set |-> FALSE, value |-> <<>>]
SetTo(value) == [set |-> TRUE, value |-> value]

LawRetrievalValues ==
    { Unset, SetTo(<<>>), SetTo(<<"sp">>),
      SetTo(<<"1">>), SetTo(<<"2">>), SetTo(<<"3">>), SetTo(<<"sp", "3", "sp">>),
      SetTo(<<"0">>), SetTo(<<"4">>), SetTo(<<"+", "3">>), SetTo(<<"0", "1">>),
      SetTo(<<"-", "1">>), SetTo(<<"x">>), SetTo(<<"1", ".", "0">>),
      SetTo(<<"1", "_">>), SetTo(<<"1", "_", "0">>) }

UseFullArticalValues ==
    { Unset, SetTo(<<"1">>), SetTo(<<"T", "R", "U", "E">>),
      SetTo(<<"sp", "o", "n">>), SetTo(<<"y", "e", "s">>), SetTo(<<"0">>),
      SetTo(<<"n", "o">>) }

MemoryLenValues ==
    { Unset, SetTo(<<"1", "0", "0">>), SetTo(<<"2", "5", "0">>),
      SetTo(<<"-", "5">>), SetTo(<<"x">>) }

ContractMaxCharsValues ==
    { Unset, SetTo(<<"1", "9", "9">>), SetTo(<<"3", "0", "0">>),
      SetTo(<<"0">>), SetTo(<<"1", "e", "3">>) }

NoDotenv == [name \in EnvNames |-> Unset]
DotenvFiles ==
    { NoDotenv,
      [NoDotenv EXCEPT !["LAW_RETRIEVAL"] = SetTo(<<"3">>)],
      [NoDotenv EXCEPT !["LAW_RETRIEVAL"] = SetTo(<<"x">>),
                       !["MEMORY_LEN"] = SetTo(<<"3", "0", "0">>)] }

\* config.py:92-104: a key of the .env file is set unless the environment
\* holds it already
load_dotenv(environ, dotenv) ==
    [name \in EnvNames |->
        IF ~environ[name].set /\ dotenv[name].set THEN dotenv[name]
        ELSE environ[name]]

\* os.getenv(name, "").strip()
getenv_stripped(environ, name) ==
    IF environ[name].set THEN Strip(environ[name].value) ELSE <<>>

UpperLetters == <<"T", "R", "U", "E", "O", "N", "Y", "S">>
LowerLetters == <<"t", "r", "u", "e", "o", "n", "y", "s">>
\* str.lower()
lower(s) ==
    [i \in 1..Len(s) |->
        IF \E u \in 1..Len(UpperLetters) : UpperLetters[u] = s[i]
        THEN LowerLetters[CHOOSE u \in 1..Len(UpperLetters) : UpperLetters[u] = s[i]]
        ELSE s[i]]

\* int(text): an optional sign, then digits, single underscores allowed
\* between digits; anything else raises ValueError
IsIntBody(s) ==
    /\ s # <<>>
    /\ IsDigit(s[1])
    /\ IsDigit(s[Len(s)])
    /\ \A i \in 1..Len(s) :
          \/ IsDigit(s[i])
          \/ s[i] = "_" /\ i > 1 /\ i < Len(s) /\ IsDigit(s[i - 1]) /\ IsDigit(s[i + 1])

RECURSIVE IntBodyValue(_)
IntBodyValue(s) ==
    IF s = <<>> THEN 0
    ELSE IF s[Len(s)] = "_" THEN IntBodyValue(SubSeq(s, 1, Len(s) - 1))
    ELSE 10 * IntBodyValue(SubSeq(s, 1, Len(s) - 1)) + DigitValue(s[Len(s)])

int_of(raw) ==
    With(Strip(raw), LAMBDA s :
        IF s = <<>> THEN [ok |-> FALSE, value |-> 0]
        ELSE IF s[1] \in {"+", "-"}
        THEN IF IsIntBody(Tail(s))
             THEN [ok |-> TRUE,
                   value |-> IF s[1] = "-" THEN 0 - IntBodyValue(Tail(s))
                             ELSE IntBodyValue(Tail(s))]
             ELSE [ok |-> FALSE, value |-> 0]
        ELSE IF IsIntBody(s) THEN [ok |-> TRUE, value |-> IntBodyValue(s)]
        ELSE [ok |-> FALSE, value |-> 0])

TruthyTexts ==
    { <<"1">>, <<"t", "r", "u", "e">>, <<"y", "e", "s">>, <<"o", "n">> }

\* config.py:42-60
law_retrieval_lenient(environ) ==
    IF getenv_stripped(environ, "LAW_RETRIEVAL") # <<>>
       /\ int_of(getenv_stripped(environ, "LAW_RETRIEVAL")).ok
       /\ int_of(getenv_stripped(environ, "LAW_RETRIEVAL")).value \in {1, 2, 3}
    THEN int_of(getenv_stripped(environ, "LAW_RETRIEVAL")).value
    ELSE IF lower(getenv_stripped(environ, "USE_FULL_ARTICAL")) \in TruthyTexts
         THEN 1 ELSE 2
law_retrieval_of(environ) ==
    IF getenv_stripped(environ, "LAW_RETRIEVAL") # <<>>
    THEN IF /\ int_of(getenv_stripped(environ, "LAW_RETRIEVAL")).ok
            /\ int_of(getenv_stripped(environ, "LAW_RETRIEVAL")).value \in {1, 2, 3}
         THEN int_of(getenv_stripped(environ, "LAW_RETRIEVAL")).value
         ELSE 2
    ELSE IF lower(getenv_stripped(environ, "USE_FULL_ARTICAL")) \in TruthyTexts
         THEN 1 ELSE 2

\* config.py:62-68 and 69-75: max(floor, int(raw)), the default when the
\* variable is blank or no integer
length_of(environ, name, floor, default) ==
    IF getenv_stripped(environ, name) = <<>> THEN default
    ELSE IF int_of(getenv_stripped(environ, name)).ok
    THEN MaxOf(floor, int_of(getenv_stripped(environ, name)).value)
    ELSE default

\* config.py:24-89
from_env(environ) ==
    [law_retrieval |-> law_retrieval_of(environ),
     use_full_artical |-> law_retrieval_of(environ) = 1,
     memory_len |-> length_of(environ, "MEMORY_LEN", MinMemoryLen, DefaultMemoryLen),
     contract_max_chars |-> length_of(environ, "CONTRACT_MAX_CHARS",
                                      MinContractMaxChars, DefaultContractMaxChars)]

ConfigInit ==
    /\ FilterOff
    /\ ChunkOff
    /\ UsageOff
    /\ RetrievalOff
    /\ JsonOff
    /\ RunOff
    /\ FileOff
    /\ SharedOff
    /\ AgainOff
    /\ ScoringOff
    /\ IndexOff
    /\ MemoryOff
    /\ \E law \in LawRetrievalValues, full \in UseFullArticalValues,
          mem \in MemoryLenValues, chars \in ContractMaxCharsValues,
          dotenv \in DotenvFiles :
          app_config =
              [pc |-> "start",
               environ |-> [name \in EnvNames |->
                               CASE name = "LAW_RETRIEVAL" -> law
                                 [] name = "USE_FULL_ARTICAL" -> full
                                 [] name = "MEMORY_LEN" -> mem
                                 [] OTHER -> chars],
               dotenv |-> dotenv,
               config |-> <<>>]

\* config.py:24-89: the .env file is merged into the environment, then the
\* configuration is built from it
FromEnv ==
    /\ app_config.pc = "start"
    /\ app_config' =
          [app_config EXCEPT
              !.pc = "done",
              !.environ = load_dotenv(app_config.environ, app_config.dotenv),
              !.config = from_env(load_dotenv(app_config.environ,
                                              app_config.dotenv))]
    /\ ConfigFrame

ConfigNext == FromEnv

SpecConfig == ConfigInit /\ [][ConfigNext]_vars

Built == app_config # <<>> /\ app_config.pc = "done"

\* LAW_RETRIEVAL holds a text that is not blank
LawRetrievalSet == getenv_stripped(app_config.environ, "LAW_RETRIEVAL") # <<>>

\* the text of LAW_RETRIEVAL reads as one of the integers 1, 2, 3
LawRetrievalValid ==
    /\ int_of(getenv_stripped(app_config.environ, "LAW_RETRIEVAL")).ok
    /\ int_of(getenv_stripped(app_config.environ, "LAW_RETRIEVAL")).value
       \in {1, 2, 3}

\* C28: the configuration built by from_env has law_retrieval in {1, 2, 3},
\* use_full_artical exactly when law_retrieval is 1, memory_len >= 200 and
\* contract_max_chars >= 200; a LAW_RETRIEVAL that is set decides the mode
\* whatever USE_FULL_ARTICAL holds, and an invalid one gives mode 2.
C28_ConfigWithinRanges ==
    Built =>
        /\ app_config.config.law_retrieval \in {1, 2, 3}
        /\ app_config.config.use_full_artical
           <=> app_config.config.law_retrieval = 1
        /\ app_config.config.memory_len >= MinMemoryLen
        /\ app_config.config.contract_max_chars >= MinContractMaxChars
        /\ LawRetrievalSet =>
              /\ \A full \in UseFullArticalValues :
                    from_env([app_config.environ EXCEPT
                                 !["USE_FULL_ARTICAL"] = full]).law_retrieval
                    = app_config.config.law_retrieval
              /\ LawRetrievalValid =>
                    app_config.config.law_retrieval
                    = int_of(getenv_stripped(app_config.environ,
                                             "LAW_RETRIEVAL")).value
              /\ ~LawRetrievalValid => app_config.config.law_retrieval = 2

\* LAW_RETRIEVAL is 4 while USE_FULL_ARTICAL is TRUE, and MEMORY_LEN is 100
C28_Witness ==
    /\ Built
    /\ app_config.environ["LAW_RETRIEVAL"] = SetTo(<<"4">>)
    /\ app_config.environ["USE_FULL_ARTICAL"] = SetTo(<<"T", "R", "U", "E">>)
    /\ app_config.environ["MEMORY_LEN"] = SetTo(<<"1", "0", "0">>)
    /\ app_config.config.law_retrieval = 2
    /\ ~app_config.config.use_full_artical
    /\ app_config.config.memory_len = MinMemoryLen


-----------------------------------------------------------------------------
(* A document that is not blank always gives chunks *)

\* C29: for every document that is not blank and every limit,
\* _chunk_contract_text returns at least one chunk and no chunk is the empty
\* text, so the empty-chunk-list branch of _run_chunked_audit cannot be taken
\* once run_audit has found the document not blank.
C29_NonBlankGivesChunks ==
    (cpc = "done" /\ ~IsBlank(text)) =>
        /\ Len(chunks) >= 1
        /\ \A i \in 1..Len(chunks) : chunks[i] # <<>>
        /\ \A n \in (0 - 1)..MaxLimit :
              /\ chunk_contract_text(text, n) # <<>>
              /\ \A i \in 1..Len(chunk_contract_text(text, n)) :
                    chunk_contract_text(text, n)[i] # <<>>

\* the same seen from the run: a chunked run that passed run_audit's check
\* has chunks to work on
EmptyChunkBranchUnreachable ==
    /\ (pc = "start" /\ ~IsBlank(document) /\ config.law_retrieval = 3)
       => chunk_contract_text(document, config.contract_max_chars) # <<>>
    /\ (pc \notin {"load", "start", "raised"} /\ config.law_retrieval = 3)
       => Len(run_chunks) >= 1

\* a document longer than the limit whose two paragraphs, joined by the
\* separator, fit in it: the only chunk is the one flushed after the loop
C29_Witness ==
    /\ cpc = "done"
    /\ text = <<"a", "nl", "nl", "nl", "a">>
    /\ max_chars = 4
    /\ chunks = <<<<"a", "nl", "nl", "a">>>>


-----------------------------------------------------------------------------
(* The citation filter of the audit endpoint (server.py, audit_run and       *)
(* _filter_hallucinated_risks).  The legal workspace is /w of the file       *)
(* system above, to which a directory /W with a file o.md is added.  A       *)
(* source_path is given by the path it names and by how the text wraps it.   *)

MaxRisks == 3

CaseDir == <<"W">>
OtherFile == <<"o", ".md">>
MissingFile == <<"m", ".md">>

ServerFiles == Files \cup {<<CaseDir, OtherFile>>}
ServerDirs == {<<>>, <<Ws>>, <<Ws2>>, <<CaseDir>>}

\* Path.exists()
Exists(resolved) == resolved \in ServerFiles \cup ServerDirs

\* config.legal_workspace
LegalWorkspace == [abs |-> TRUE, comps |-> <<Ws>>]

\* a citation: a dict with a source_path text (plain, or wrapped in
\* file://), a dict whose source_path is missing, None or "", or a text
\* where a dict is expected
Cite(wrap, abs, comps) ==
    [kind |-> "dict", wrap |-> wrap, path |-> [abs |-> abs, comps |-> comps]]
NoSourcePath == Cite("none", FALSE, <<>>)
NotADict == [kind |-> "text", wrap |-> "none", path |-> [abs |-> FALSE, comps |-> <<>>]]

InWorkspace == Cite("plain", FALSE, <<LawFile>>)
BlankPath == Cite("plain", FALSE, <<>>)
MissingCitation == Cite("plain", FALSE, <<MissingFile>>)
OtherWorkspaceSameName == Cite("plain", TRUE, <<Ws2, LawFile>>)
CaseVariant == Cite("plain", TRUE, <<CaseDir, OtherFile>>)
OutsideDir == Cite("plain", FALSE, <<Up, Ws2>>)
FileUrl == Cite("file", TRUE, <<Ws, LawFile>>)

\* a risk: its title and its law_evidence (absent, or a list of citations)
Risk(title, cited, law_evidence) ==
    [title |-> title, cited |-> cited, law_evidence |-> law_evidence]

RiskKinds ==
    { Risk("r0", FALSE, <<>>),
      Risk("r1", TRUE, <<>>),
      Risk("r2", TRUE, <<InWorkspace>>),
      Risk("r3", TRUE, <<InWorkspace, MissingCitation>>),
      Risk("r4", TRUE, <<MissingCitation, NotADict>>),
      Risk("r5", TRUE, <<BlankPath>>),
      Risk("r6", TRUE, <<CaseVariant>>),
      Risk("r7", TRUE, <<OtherWorkspaceSameName, FileUrl>>),
      Risk("r8", TRUE, <<NoSourcePath>>),
      Risk("r9", TRUE, <<InWorkspace, NotADict>>),
      Risk("r10", TRUE, <<OutsideDir>>) }

\* server.py:286-293: the text is stripped of blanks, quotes and brackets; a
\* file:// prefix is removed with the slashes that follow it, which leaves a
\* relative path
clean_path(citation) ==
    IF citation.wrap = "file"
    THEN [abs |-> FALSE, comps |-> citation.path.comps]
    ELSE citation.path

\* server.py:296-313: the candidate is resolved from the workspace; it is
\* returned when it lies within the resolved workspace, and also when the
\* lower-cased text of the path is the lower-cased text of the workspace or
\* starts with it and a separator
resolve_in_workspace(workspace, input_path) ==
    With(resolve(input_path, resolve(workspace, <<>>)), LAMBDA resolved :
        IF is_within(resolved, resolve(workspace, <<>>)) THEN <<resolved>>
        ELSE IF Lower(PathString(resolved))
                = Lower(PathString(resolve(workspace, <<>>)))
        THEN <<resolved>>
        ELSE IF is_within_string_prefix_lower(resolved, resolve(workspace, <<>>))
        THEN <<resolved>>
        ELSE <<>>)

\* file_read.py:7-16: the files below the workspace
list_legal_files(workspace) ==
    {f \in ServerFiles : is_within(f, resolve(workspace, <<>>))}

\* Path.name and Path.stem of a component
Stem(name) == IF Len(name) > 1 THEN SubSeq(name, 1, Len(name) - 1) ELSE name

\* server.py:316-327: a file of the workspace with the name of the path, or
\* else with its stem
find_legal_by_name(workspace, input_path) ==
    IF input_path.comps = <<>> THEN <<>>
    ELSE With(input_path.comps[Len(input_path.comps)], LAMBDA name :
        IF \E f \in list_legal_files(workspace) : f[Len(f)] = name
        THEN <<CHOOSE f \in list_legal_files(workspace) : f[Len(f)] = name>>
        ELSE IF \E f \in list_legal_files(workspace) : Stem(f[Len(f)]) = Stem(name)
        THEN <<CHOOSE f \in list_legal_files(workspace) :
                  Stem(f[Len(f)]) = Stem(name)>>
        ELSE <<>>)

\* server.py:414-424: <<>> for None
resolve_citation_path(workspace, citation) ==
    IF citation.wrap = "none" THEN <<>>
    ELSE IF /\ resolve_in_workspace(workspace, clean_path(citation)) # <<>>
            /\ Exists(resolve_in_workspace(workspace, clean_path(citation))[1])
    THEN resolve_in_workspace(workspace, clean_path(citation))
    ELSE find_legal_by_name(workspace, clean_path(citation))

\* server.py:401-410: the citations are looked at in order up to the first
\* one that does not resolve; a citation that is no dict raises
RECURSIVE check_citations(_, _)
check_citations(workspace, citations) ==
    IF citations = <<>> THEN "valid"
    ELSE IF Head(citations).kind # "dict" THEN "raises"
    ELSE IF resolve_citation_path(workspace, Head(citations)) = <<>> THEN "invalid"
    ELSE check_citations(workspace, Tail(citations))

\* server.py:395-411
RECURSIVE filter_hallucinated_risks(_, _)
filter_hallucinated_risks(workspace, risks) ==
    IF risks = <<>> THEN <<>>
    ELSE IF ~Head(risks).cited \/ Head(risks).law_evidence = <<>>
    THEN filter_hallucinated_risks(workspace, Tail(risks))
    ELSE IF check_citations(workspace, Head(risks).law_evidence) = "valid"
    THEN <<Head(risks)>> \o filter_hallucinated_risks(workspace, Tail(risks))
    ELSE filter_hallucinated_risks(workspace, Tail(risks))

\* a citation that is no dict is reached
filter_raises(workspace, risks) ==
    \E i \in 1..Len(risks) :
        /\ risks[i].cited
        /\ check_citations(workspace, risks[i].law_evidence) = "raises"

FilterInit ==
    /\ ChunkOff
    /\ UsageOff
    /\ RetrievalOff
    /\ JsonOff
    /\ RunOff
    /\ FileOff
    /\ SharedOff
    /\ AgainOff
    /\ ScoringOff
    /\ IndexOff
    /\ MemoryOff
    /\ ConfigOff
    /\ \E risks \in SeqsUpTo(RiskKinds, MaxRisks) :
          filtering = [pc |-> "run", risks |-> risks, returned |-> <<>>,
                       error |-> ""]

\* server.py:240-243: the risks of the run are filtered and returned
AuditRunReturns ==
    /\ filtering.pc = "run"
    /\ ~filter_raises(LegalWorkspace, filtering.risks)
    /\ filtering' =
          [filtering EXCEPT
              !.pc = "done",
              !.returned = filter_hallucinated_risks(LegalWorkspace,
                                                     filtering.risks)]
    /\ FilterFrame

\* server.py:244-246: the filter raises and the endpoint answers with the
\* error, status 500
AuditRunFails ==
    /\ filtering.pc = "run"
    /\ filter_raises(LegalWorkspace, filtering.risks)
    /\ filtering' =
          [filtering EXCEPT
              !.pc = "done",
              !.error = "AttributeError: 'str' object has no attribute 'get'"]
    /\ FilterFrame

FilterNext ==
    \/ AuditRunReturns
    \/ AuditRunFails

SpecFilter == FilterInit /\ [][FilterNext]_vars

Answered ==
    /\ filtering # <<>>
    /\ filtering.pc = "done"
    /\ filtering.error = ""

\* the citation names a file of the legal workspace: its path resolves to
\* one, or its name or stem is the one of a file of the workspace
CitesWorkspaceFile(citation) ==
    /\ citation.kind = "dict"
    /\ citation.wrap # "none"
    /\ \E f \in Files :
          /\ is_within(f, resolve(LegalWorkspace, <<>>))
          /\ \/ resolve(clean_path(citation), resolve(LegalWorkspace, <<>>)) = f
             \/ /\ clean_path(citation).comps # <<>>
                /\ Stem(clean_path(citation).comps[Len(clean_path(citation).comps)])
                   = Stem(f[Len(f)])

KeptByStatement(risk) ==
    /\ risk.cited
    /\ risk.law_evidence # <<>>
    /\ \A c \in 1..Len(risk.law_evidence) : CitesWorkspaceFile(risk.law_evidence[c])

KeptByResolution(risk) ==
    /\ risk.cited
    /\ risk.law_evidence # <<>>
    /\ \A c \in 1..Len(risk.law_evidence) :
          /\ risk.law_evidence[c].kind = "dict"
          /\ resolve_citation_path(LegalWorkspace, risk.law_evidence[c]) # <<>>

\* C30: the risks the endpoint returns are the risks of the run, in their
\* order and unaltered, that have at least one law_evidence citation and
\* whose citations all name an existing file of the legal workspace.
C30_KeptExactlyWhenCitedFilesExist ==
    Answered =>
        filtering.returned = SelectSeq(filtering.risks, KeptByStatement)

\* the risks returned are the risks of the run, in their order and
\* unaltered, whose citations are at least one and all pass
\* _resolve_citation_path
ReturnedAreTheResolvedRisks ==
    Answered =>
        filtering.returned = SelectSeq(filtering.risks, KeptByResolution)

\* a risk whose only citation has a blank source_path is returned
BlankCitationKept ==
    /\ Answered
    /\ \E i \in 1..Len(filtering.returned) :
          filtering.returned[i].law_evidence = <<BlankPath>>

=============================================================================
